---- MODULE Spec2Model ----
(***************************************************************************)
(* A model of the pecco-lang front end: the expression parser, the         *)
(* symbol-table builder (SymbolTableBuilder over ScopedSymbolTable) and    *)
(* the operator resolver (OperatorResolver), driven in the order of        *)
(* src/src/driver.cpp: parse, load the prelude, collect the declarations,  *)
(* resolve the operator sequences.                                         *)
(*                                                                         *)
(* Pointers: a null ExprPtr/StmtPtr is the record Null, an empty           *)
(* std::optional is the record NullOpt.  C++ vectors are sequences, so     *)
(* every index of the source is shifted by one (the first element is 1).   *)
(* A source location keeps its line and its column; the column of a token  *)
(* is its position in the token list.                                      *)
(***************************************************************************)
EXTENDS Integers, Sequences, FiniteSets, TLC

VARIABLES
    pc,             \* position of the driver in its pipeline
    stmts,          \* the statement list the parser returned (mutated in place by the resolver)
    parsed,         \* history: the statement list as the parser returned it
    symbols,        \* the ScopedSymbolTable
    builder_errors, \* SymbolTableBuilder::errors_
    resolve_errors, \* the resolver's error list
    decl_log,       \* history: every declaration the builder met, with the scope it met it in
    type_errors,    \* TypeChecker::errors_
    module_,        \* the functions and basic blocks the code generator emitted
    codegen_errors, \* CodeGen::errors_
    tokens_,        \* the tokens handed to the parser, when the source is given as text
    parse_errors,   \* Parser::errors_
    synchronized,   \* history: the recoveries of the parser
    source_,        \* Lexer::source_, when the source is lexed
    spans           \* history: the offsets each token of the lexer begins and ends at

vars == <<pc, stmts, parsed, symbols, builder_errors, resolve_errors, decl_log,
          type_errors, module_, codegen_errors, tokens_, parse_errors, synchronized,
          source_, spans>>

\* The state of the parser.
frontend == <<tokens_, parse_errors, synchronized>>

\* The state of the lexer.
lexer == <<source_, spans>>

\* The state of the stages after the resolver.
backend == <<type_errors, module_, codegen_errors>>

-----------------------------------------------------------------------------
(* Bounds of the model *)

\* infix operators in one generated infix chain
MaxInfix == 3
\* items (operators and operands) in one generated prefix/postfix sequence
MaxItems == 5
\* tokens of one generated expression with parentheses and calls
MaxTokens == 5
\* statements in one generated block
MaxBody == 2
\* The longest number a program writes, in digits.
MaxDigits == 20
\* The most lines a source text has.
MaxLines == 2

\* The greatest number of characters of a text handed to the lexer.
MaxSource == 4

\* The value of a call, handed once to the code that follows the call.
With(r, F(_)) == F(r)

-----------------------------------------------------------------------------
(* AST values: src/unnamed/part_006 (ast.hpp) *)

Null == [kind |-> "Null"]
NullOpt == [kind |-> "NullOpt"]

SourceLocation(line, column) == [line |-> line, column |-> column]

\* Every expression node has the field inferred_type, empty until the type
\* checker stores a type in it.
IntLiteralExpr(value, loc) ==
    [kind |-> "IntLiteral", value |-> value, loc |-> loc, inferred_type |-> ""]
FloatLiteralExpr(value, loc) ==
    [kind |-> "FloatLiteral", value |-> value, loc |-> loc, inferred_type |-> ""]
StringLiteralExpr(value, loc) ==
    [kind |-> "StringLiteral", value |-> value, loc |-> loc, inferred_type |-> ""]
BoolLiteralExpr(value, loc) ==
    [kind |-> "BoolLiteral", value |-> value, loc |-> loc, inferred_type |-> ""]
IdentifierExpr(name, loc) ==
    [kind |-> "Identifier", name |-> name, loc |-> loc, inferred_type |-> ""]
BinaryExpr(op, left, right, loc) ==
    [kind |-> "Binary", op |-> op, left |-> left, right |-> right,
     position |-> "Infix", loc |-> loc, inferred_type |-> ""]
UnaryExpr(op, operand, position, loc) ==
    [kind |-> "Unary", op |-> op, operand |-> operand, position |-> position, loc |-> loc,
     inferred_type |-> ""]
OperatorSeqExpr(items, loc) ==
    [kind |-> "OperatorSeq", items |-> items, loc |-> loc, inferred_type |-> ""]
CallExpr(callee, args, loc) ==
    [kind |-> "Call", callee |-> callee, args |-> args, loc |-> loc, inferred_type |-> ""]

\* OpSeqItem: an operator item keeps its own location.  The constructor of
\* an operand item initializes loc after it has moved its parameter into the
\* member operand, so "operand ? operand->loc : SourceLocation()" reads the
\* emptied parameter and the location is the unknown one.
OpSeqItemOperator(op, loc) == [kind |-> "Operator", op |-> op, operand |-> Null, loc |-> loc]
OpSeqItemOperand(operand) ==
    [kind |-> "Operand", op |-> "", operand |-> operand, loc |-> SourceLocation(0, 0)]

\* A type annotation.
Type(name) == [kind |-> "Named", name |-> name]

Parameter(name, type, loc) == [name |-> name, type |-> type, loc |-> loc]

LetStmt(name, type, init, loc) ==
    [kind |-> "Let", name |-> name, type |-> type, init |-> init, loc |-> loc]
FuncStmt(name, params, return_type, body, loc) ==
    [kind |-> "Func", name |-> name, params |-> params, return_type |-> return_type,
     body |-> body, loc |-> loc]
OperatorDeclStmt(op, position, params, return_type, precedence, assoc, body, loc) ==
    [kind |-> "OperatorDecl", op |-> op, position |-> position, params |-> params,
     return_type |-> return_type, precedence |-> precedence, assoc |-> assoc,
     body |-> body, loc |-> loc]
IfStmt(condition, then_branch, else_branch, loc) ==
    [kind |-> "If", condition |-> condition, then_branch |-> then_branch,
     else_branch |-> else_branch, loc |-> loc]
ReturnStmt(value, loc) == [kind |-> "Return", value |-> value, loc |-> loc]
WhileStmt(condition, body, loc) ==
    [kind |-> "While", condition |-> condition, body |-> body, loc |-> loc]
ExprStmt(expr, loc) == [kind |-> "Expr", expr |-> expr, loc |-> loc]
BlockStmt(body, loc) == [kind |-> "Block", stmts |-> body, loc |-> loc]

-----------------------------------------------------------------------------
(* Operator table: src/include/operator.hpp, src/src/parser.cpp *)

EmptyMap == [k \in {} |-> <<>>]

OperatorSignature(param_types, return_type) ==
    [param_types |-> param_types, return_type |-> return_type]

OperatorInfo(op, position, precedence, assoc, signature, origin) ==
    [op |-> op, position |-> position, precedence |-> precedence, assoc |-> assoc,
     signature |-> signature, origin |-> origin]

\* operators_[key].push_back(info), key = (symbol, position)
AddOperator(operators_, info) ==
    LET key == <<info.op, info.position>>
    IN  IF key \in DOMAIN operators_
        THEN [operators_ EXCEPT ![key] = Append(@, info)]
        ELSE operators_ @@ (key :> <<info>>)

\* The first overload stored under (op, position), or NullOpt.
FindOperator(operators_, op, position) ==
    LET key == <<op, position>>
    IN  IF key \in DOMAIN operators_ /\ Len(operators_[key]) > 0
        THEN operators_[key][1]
        ELSE NullOpt

-----------------------------------------------------------------------------
(* Tokens and the parser's cursor: src/include/token.hpp, src/src/parser.cpp *)

\* A token from line:column to line:end_column (exclusive).
TokenTo(kind, lexeme, line, column, end_column) ==
    [kind |-> kind, lexeme |-> lexeme, line |-> line, column |-> column,
     end_column |-> end_column]

\* A token one column wide.
Token(kind, lexeme, line, column) == TokenTo(kind, lexeme, line, column, column + 1)

\* A number's lexeme is the sequence of its digit characters.
DigitValue(d) == CHOOSE v \in 0..9 : ToString(v) = d

RECURSIVE Significant(_)
\* The digits without leading zeros.
Significant(digits) ==
    IF Len(digits) > 1 /\ digits[1] = "0" THEN Significant(Tail(digits)) ELSE digits

\* Whether the number written with the digits is greater than limit, a
\* sequence of digit values.
Exceeds(digits, limit) ==
    LET d == Significant(digits)
    IN  \/ Len(d) > Len(limit)
        \/ /\ Len(d) = Len(limit)
           /\ \E i \in 1..Len(d) :
                 /\ DigitValue(d[i]) > limit[i]
                 /\ \A j \in 1..(i - 1) : DigitValue(d[j]) = limit[j]

\* INT_MAX, 2^31 - 1, and LLONG_MAX, 2^63 - 1.
IntMax == <<2, 1, 4, 7, 4, 8, 3, 6, 4, 7>>
LLongMax == <<9, 2, 2, 3, 3, 7, 2, 0, 3, 6, 8, 5, 4, 7, 7, 5, 8, 0, 7>>

\* std::stoi and std::stoll throw std::out_of_range when the number does
\* not fit the result type.
StoiThrows(digits) == Exceeds(digits, IntMax)
StollThrows(digits) == Exceeds(digits, LLongMax)

RECURSIVE Stoi(_)
\* The value std::stoi returns for a number that fits an int.
Stoi(digits) ==
    IF digits = <<>> THEN 0
    ELSE Stoi(SubSeq(digits, 1, Len(digits) - 1)) * 10 + DigitValue(digits[Len(digits)])

\* Parser::Parser: the cursor starts at the first token, no error yet.
\* thrown is set when an exception leaves the parser; synchronized is
\* history, the recoveries of the parse.
Parser(tokens) ==
    [tokens |-> tokens, current |-> 1, errors |-> <<>>, thrown |-> FALSE, synchronized |-> <<>>]

token_loc(tok) == SourceLocation(tok.line, tok.column)

RECURSIVE SkipComments(_, _)
\* "while (idx < tokens_.size() && tokens_[idx].kind == Comment) ++idx"
SkipComments(tokens, idx) ==
    IF idx <= Len(tokens) /\ tokens[idx].kind = "Comment"
    THEN SkipComments(tokens, idx + 1)
    ELSE idx

Peek(P) ==
    LET idx == SkipComments(P.tokens, P.current)
    IN  IF idx > Len(P.tokens) THEN P.tokens[Len(P.tokens)] ELSE P.tokens[idx]

AtEnd(P) ==
    LET idx == SkipComments(P.tokens, P.current)
    IN  idx > Len(P.tokens) \/ P.tokens[idx].kind = "EndOfFile"

Check(P, kind) == IF AtEnd(P) THEN FALSE ELSE Peek(P).kind = kind

CheckPunct(P, lexeme) == Check(P, "Punctuation") /\ Peek(P).lexeme = lexeme

\* Parser::advance: the cursor after the call (the token returned is the one before it).
Advance(P) ==
    LET idx == SkipComments(P.tokens, P.current)
    IN  [P EXCEPT !.current = IF idx <= Len(P.tokens) THEN idx + 1 ELSE idx]

\* Parser::error: the error is at the token the parser looks at.  cursor
\* is history: where the parser stood.
ParserError(P, message) ==
    LET tok == Peek(P)
    IN  [P EXCEPT !.errors =
            Append(@, [message |-> message, line |-> tok.line, column |-> tok.column,
                       cursor |-> P.current])]

CanStartPrimary(P) ==
    IF AtEnd(P) THEN FALSE
    ELSE LET tok == Peek(P)
         IN  \/ tok.kind \in {"Integer", "Float", "String"}
             \/ tok.kind = "Identifier"
             \/ tok.kind = "Keyword" /\ tok.lexeme \in {"true", "false"}
             \/ tok.kind = "Punctuation" /\ tok.lexeme = "("

RECURSIVE ParseExpr(_)
RECURSIVE ParseExprItems(_, _, _)
RECURSIVE ParsePrimaryExpr(_)
RECURSIVE ParseCallArgs(_, _)

\* The primary branch of the loop of parse_expr, once parse_primary_expr
\* has returned r: a null operand ends parse_expr with a null result.
ItemsAfterPrimary(r, items) ==
    IF r.expr = Null
    THEN [ok |-> FALSE, items |-> items, P |-> r.P]
    ELSE ParseExprItems(r.P, Append(items, OpSeqItemOperand(r.expr)), TRUE)

\* The loop of parse_expr: operators may follow one another, primaries may not.
ParseExprItems(P, items, last_was_primary) ==
    IF AtEnd(P) THEN [ok |-> TRUE, items |-> items, P |-> P]
    ELSE IF Check(P, "Operator")
    THEN ParseExprItems(Advance(P),
                        Append(items, OpSeqItemOperator(Peek(P).lexeme, token_loc(Peek(P)))),
                        FALSE)
    ELSE IF CanStartPrimary(P)
    THEN IF last_was_primary
         THEN [ok |-> TRUE, items |-> items, P |-> P]
         ELSE ItemsAfterPrimary(ParsePrimaryExpr(P), items)
    ELSE [ok |-> TRUE, items |-> items, P |-> P]

\* The end of parse_expr, r the outcome of its loop: no item is an error, a
\* single operand is returned as it is, anything else as an OperatorSeqExpr.
ExprOfItems(start_tok, r) ==
    IF ~r.ok THEN [expr |-> Null, P |-> r.P]
    ELSE IF Len(r.items) = 0
    THEN [expr |-> Null, P |-> ParserError(r.P, "Expected expression")]
    ELSE IF Len(r.items) = 1 /\ r.items[1].kind = "Operand"
    THEN [expr |-> r.items[1].operand, P |-> r.P]
    ELSE [expr |-> OperatorSeqExpr(r.items, token_loc(start_tok)), P |-> r.P]

ParseExpr(P) == ExprOfItems(Peek(P), ParseExprItems(P, <<>>, FALSE))

\* The argument loop of parse_call_expr, once parse_expr has returned r.
ArgsAfterArg(r, args) ==
    IF r.expr = Null
    THEN [ok |-> FALSE, args |-> args, P |-> ParserError(r.P, "Expected argument expression")]
    ELSE ParseCallArgs(r.P, Append(args, r.expr))

\* The argument loop of parse_call_expr, entered after the '(' is consumed.
ParseCallArgs(P, args) ==
    IF CheckPunct(P, ")") THEN [ok |-> TRUE, args |-> args, P |-> P]
    ELSE IF Len(args) > 0 /\ ~CheckPunct(P, ",")
    THEN [ok |-> FALSE, args |-> args, P |-> ParserError(P, "Expected ',' between arguments")]
    ELSE ArgsAfterArg(ParseExpr(IF Len(args) > 0 THEN Advance(P) ELSE P), args)

\* The end of parse_call_expr, r the outcome of its argument loop.
CallOfArgs(callee, start_tok, r) ==
    IF ~r.ok THEN [expr |-> Null, P |-> r.P]
    ELSE IF ~CheckPunct(r.P, ")")
    THEN [expr |-> Null, P |-> ParserError(r.P, "Expected ')' after arguments")]
    ELSE [expr |-> CallExpr(callee, r.args, token_loc(start_tok)), P |-> Advance(r.P)]

ParseCallExpr(P, callee) == CallOfArgs(callee, Peek(P), ParseCallArgs(Advance(P), <<>>))

\* The parenthesized case of parse_primary_expr, once parse_expr has returned r.
Parenthesized(r) ==
    IF r.expr = Null
    THEN [expr |-> Null, P |-> ParserError(r.P, "Expected expression after '('")]
    ELSE IF ~CheckPunct(r.P, ")")
    THEN [expr |-> Null, P |-> ParserError(r.P, "Expected ')' after expression")]
    ELSE [expr |-> r.expr, P |-> Advance(r.P)]

\* The identifier case of parse_primary_expr: a '(' after it makes a call.
IdentifierOrCall(P1, expr) ==
    IF CheckPunct(P1, "(") THEN ParseCallExpr(P1, expr) ELSE [expr |-> expr, P |-> P1]

ParsePrimaryExpr(P) ==
    LET tok == Peek(P)
    IN  IF tok.kind = "Integer"
        THEN [expr |-> IntLiteralExpr(tok.lexeme, token_loc(tok)), P |-> Advance(P)]
        ELSE IF tok.kind = "Float"
        THEN [expr |-> FloatLiteralExpr(tok.lexeme, token_loc(tok)), P |-> Advance(P)]
        ELSE IF tok.kind = "String"
        THEN [expr |-> StringLiteralExpr(tok.lexeme, token_loc(tok)), P |-> Advance(P)]
        ELSE IF tok.kind = "Keyword" /\ tok.lexeme \in {"true", "false"}
        THEN [expr |-> BoolLiteralExpr(tok.lexeme = "true", token_loc(tok)), P |-> Advance(P)]
        ELSE IF tok.kind = "Identifier"
        THEN IdentifierOrCall(Advance(P), IdentifierExpr(tok.lexeme, token_loc(tok)))
        ELSE IF tok.kind = "Punctuation" /\ tok.lexeme = "("
        THEN Parenthesized(ParseExpr(Advance(P)))
        ELSE [expr |-> Null,
              P |-> ParserError(P, "Unexpected token in expression")]

-----------------------------------------------------------------------------
(* The lexer: src/unnamed/part_012 *)

\* A source is a sequence of characters, each a string of length one.
kOperatorChars == {"+", "-", "*", "/", "%", "=", "&", "|", "^", "!", "<", ">", "?", "."}
kPunctuationChars == {"(", ")", "{", "}", "[", "]", ",", ";", ":", "#"}

kKeywords ==
    { "let", "func", "if", "else", "return", "while",
      "true", "false", "operator", "prefix", "postfix", "infix",
      "prec", "assoc", "left", "right", "none" }

\* The letters and the digits of the sources.
Letters ==
    { "a", "b", "c", "d", "e", "f", "g", "h", "i", "j", "k", "l", "m",
      "n", "o", "p", "q", "r", "s", "t", "u", "v", "w", "x", "y", "z", "E" }
Digits == {"0", "1", "2", "3", "4", "5", "6", "7", "8", "9"}

IsIdentifierStart(c) == c \in Letters \/ c = "_"
IsIdentifierPart(c) == c \in Letters \/ c \in Digits \/ c = "_"
IsOperatorChar(c) == c \in kOperatorChars
IsPunctuationChar(c) == c \in kPunctuationChars
IsWhitespace(c) == c \in {" ", "\t", "\r", "\n"}

\* Lexer::reset. index_ counts the characters consumed.
Lexer(source) == [source_ |-> source, index_ |-> 0, line_ |-> 1, column_ |-> 1]

\* A lexer that takes the last character for the end of the source.
LexerAtEndEarly(L) == L.index_ + 1 >= Len(L.source_)

LexerAtEnd(L) == L.index_ >= Len(L.source_)
LexerPeek(L) == L.source_[L.index_ + 1]

\* A lexer that goes back to column 1 at a newline and stays on the line.
LexerAdvanceSameLine(L) ==
    [L EXCEPT !.index_ = @ + 1,
              !.column_ = IF L.source_[L.index_ + 1] = "\n" THEN 1 ELSE @ + 1]

\* Lexer::advance: a newline starts the next line at column 1.
LexerAdvance(L) ==
    IF LexerPeek(L) = "\n"
    THEN [L EXCEPT !.index_ = @ + 1, !.line_ = @ + 1, !.column_ = 1]
    ELSE [L EXCEPT !.index_ = @ + 1, !.column_ = @ + 1]

RECURSIVE SkipWhitespace(_)
SkipWhitespace(L) ==
    IF ~LexerAtEnd(L) /\ IsWhitespace(LexerPeek(L)) THEN SkipWhitespace(LexerAdvance(L))
    ELSE L

RECURSIVE Str(_)
\* The string of a sequence of characters.
Str(chars) == IF chars = <<>> THEN "" ELSE chars[1] \o Str(Tail(chars))

\* source_.substr(start, end - start)
Substr(L, start, end) == SubSeq(L.source_, start + 1, end)

\* A token of the lexer, with the error_offset of struct Token.
LexerToken(kind, lexeme, line, column, end_column, error_offset) ==
    [kind |-> kind, lexeme |-> lexeme, line |-> line, column |-> column,
     end_column |-> end_column, error_offset |-> error_offset]

\* A token from the position of L to the position of E.
TokenBetween(kind, lexeme, L, E) ==
    [tok |-> LexerToken(kind, lexeme, L.line_, L.column_, E.column_, 0), L |-> E]

\* make_error: an end column of 0 stands for one column after the start.
MakeError(message, line, column, end_column, error_offset) ==
    LexerToken("Error", message, line, column,
               IF end_column = 0 THEN column + 1 ELSE end_column, error_offset)

\* The sign an exponent may have.
AfterExponent(L) == IF LexerPeek(L) \in {"+", "-"} THEN LexerAdvance(L) ELSE L

RECURSIVE NumberEnd(_, _, _)
\* The loop of lex_number.
NumberEnd(L, saw_dot, saw_exponent) ==
    IF LexerAtEnd(L) THEN [L |-> L, float |-> saw_dot \/ saw_exponent]
    ELSE IF LexerPeek(L) \in Digits THEN NumberEnd(LexerAdvance(L), saw_dot, saw_exponent)
    ELSE IF LexerPeek(L) = "." /\ ~saw_dot /\ ~saw_exponent
    THEN NumberEnd(LexerAdvance(L), TRUE, saw_exponent)
    ELSE IF /\ LexerPeek(L) \in {"e", "E"}
            /\ L.index_ + 1 < Len(L.source_)
            /\ L.source_[L.index_ + 2] \in Digits \cup {"+", "-"}
    THEN NumberEnd(AfterExponent(LexerAdvance(L)), saw_dot, TRUE)
    ELSE [L |-> L, float |-> saw_dot \/ saw_exponent]

LexNumber(L) ==
    With(NumberEnd(L, FALSE, FALSE),
         LAMBDA r : TokenBetween(IF r.float THEN "Float" ELSE "Integer",
                                 Str(Substr(L, L.index_, r.L.index_)), L, r.L))

RECURSIVE IdentifierEnd(_)
IdentifierEnd(L) ==
    IF ~LexerAtEnd(L) /\ IsIdentifierPart(LexerPeek(L)) THEN IdentifierEnd(LexerAdvance(L))
    ELSE L

\* A word is a keyword when it is in kKeywords.
WordBetween(view, L, E) ==
    TokenBetween(IF view \in kKeywords THEN "Keyword" ELSE "Identifier", view, L, E)

LexIdentifierOrKeyword(L) ==
    With(IdentifierEnd(LexerAdvance(L)),
         LAMBDA E : WordBetween(Str(Substr(L, L.index_, E.index_)), L, E))

\* The characters an escape stands for; backspace and NUL are written out.
Unescaped(c) ==
    IF c = "n" THEN "\n" ELSE IF c = "t" THEN "\t" ELSE IF c = "r" THEN "\r"
    ELSE IF c = "b" THEN "<BS>" ELSE IF c = "f" THEN "\f" ELSE IF c = "0" THEN "<NUL>"
    ELSE c

RECURSIVE DecodeFrom(_, _, _)
\* The loop of decode_string_with_error_pos from character i of the view.
DecodeFrom(view, i, out) ==
    IF i > Len(view) THEN [ok |-> TRUE, out |-> out, error_pos |-> 0]
    ELSE IF view[i] # "\\" THEN DecodeFrom(view, i + 1, out \o view[i])
    ELSE IF i + 1 > Len(view) THEN [ok |-> FALSE, out |-> "", error_pos |-> i - 1]
    ELSE IF view[i + 1] \in {"\\", "\"", "'", "n", "t", "r", "b", "f", "0"}
    THEN DecodeFrom(view, i + 2, out \o Unescaped(view[i + 1]))
    ELSE [ok |-> FALSE, out |-> "", error_pos |-> i - 1]

DecodeStringWithErrorPos(view) == DecodeFrom(view, 1, "")

RECURSIVE StringEnd(_, _)
\* The loop of lex_string: up to and with the closing quote, or the newline
\* or the end of the source that leaves the string open.
StringEnd(L, backslashes) ==
    IF LexerAtEnd(L) THEN [L |-> L, terminated |-> FALSE]
    ELSE IF LexerPeek(L) = "\\" THEN StringEnd(LexerAdvance(L), backslashes + 1)
    ELSE IF LexerPeek(L) = "\"" /\ backslashes % 2 = 0
    THEN [L |-> LexerAdvance(L), terminated |-> TRUE]
    ELSE IF LexerPeek(L) = "\n" /\ backslashes % 2 = 0
    THEN [L |-> LexerAdvance(L), terminated |-> FALSE]
    ELSE StringEnd(LexerAdvance(L), 0)

\* The token of a string that was closed at E.
StringBetween(decoded, L, E) ==
    IF decoded.ok THEN TokenBetween("String", decoded.out, L, E)
    ELSE [tok |-> MakeError("Invalid string escape", L.line_, L.column_, E.column_,
                            decoded.error_pos + 1),
          L |-> E]

StringUpTo(r, L) ==
    IF ~r.terminated
    THEN [tok |-> MakeError("Unterminated string literal", L.line_, L.column_,
                            r.L.column_, 0),
          L |-> r.L]
    ELSE StringBetween(DecodeStringWithErrorPos(Substr(L, L.index_ + 1, r.L.index_ - 1)),
                       L, r.L)

LexString(L) == StringUpTo(StringEnd(LexerAdvance(L), 0), L)

RECURSIVE OperatorEnd(_)
OperatorEnd(L) ==
    IF ~LexerAtEnd(L) /\ IsOperatorChar(LexerPeek(L)) THEN OperatorEnd(LexerAdvance(L))
    ELSE L

LexOperator(L) ==
    With(OperatorEnd(L),
         LAMBDA E : TokenBetween("Operator", Str(Substr(L, L.index_, E.index_)), L, E))

RECURSIVE CommentEnd(_)
\* The end of the line, the newline not consumed.
CommentEnd(L) ==
    IF ~LexerAtEnd(L) /\ LexerPeek(L) # "\n" THEN CommentEnd(LexerAdvance(L)) ELSE L

\* The comment consumes the newline that ends it.
CommentUpTo(E, L) ==
    TokenBetween("Comment", Str(Substr(L, L.index_ + 1, E.index_)), L,
                 IF ~LexerAtEnd(E) /\ LexerPeek(E) = "\n" THEN LexerAdvance(E) ELSE E)

LexPunctuationOrComment(L) ==
    IF LexerPeek(L) = "#" THEN CommentUpTo(CommentEnd(LexerAdvance(L)), L)
    ELSE TokenBetween("Punctuation", LexerPeek(L), L, LexerAdvance(L))

\* The token at the position of L, after the whitespace was skipped.  The
\* end-of-file token keeps the end column Token declares, 1.
TokenAt(L) ==
    IF LexerAtEnd(L)
    THEN [tok |-> LexerToken("EndOfFile", "", L.line_, L.column_, 1, 0), L |-> L]
    ELSE IF LexerPeek(L) \in Digits THEN LexNumber(L)
    ELSE IF IsIdentifierStart(LexerPeek(L)) THEN LexIdentifierOrKeyword(L)
    ELSE IF LexerPeek(L) = "\"" THEN LexString(L)
    ELSE IF IsOperatorChar(LexerPeek(L)) THEN LexOperator(L)
    ELSE IF IsPunctuationChar(LexerPeek(L)) THEN LexPunctuationOrComment(L)
    ELSE [tok |-> MakeError("Unexpected character: " \o LexerPeek(L), L.line_, L.column_,
                            LexerAdvance(L).column_, 0),
          L |-> LexerAdvance(L)]

\* Lexer::next_token.  from is history: the offset the token begins at.
NextToken(L) ==
    With(SkipWhitespace(L),
         LAMBDA W : With(TokenAt(W),
                         LAMBDA r : [tok |-> r.tok, L |-> r.L, from |-> W.index_]))

RECURSIVE TokensFrom(_, _, _)
\* The loop of tokenize_all.  seen is history: the offsets each token
\* begins and ends at.  A call of next_token that returns a token other
\* than the end-of-file token and leaves the lexer where it was would be
\* repeated for ever: diverges.
TokensAfter(r, L, tokens, seen) ==
    IF r.tok.kind = "EndOfFile" \/ r.L.index_ = L.index_
    THEN [tokens |-> Append(tokens, r.tok),
          seen |-> Append(seen, [from |-> r.from, to |-> r.L.index_]),
          diverges |-> r.tok.kind # "EndOfFile"]
    ELSE TokensFrom(r.L, Append(tokens, r.tok),
                    Append(seen, [from |-> r.from, to |-> r.L.index_]))

TokensFrom(L, tokens, seen) == TokensAfter(NextToken(L), L, tokens, seen)

TokenizeAll(source) == TokensFrom(Lexer(source), <<>>, <<>>)

-----------------------------------------------------------------------------
(* Statements and error recovery: src/src/parser.cpp *)

Statement(stmt, P) == [stmt |-> stmt, P |-> P]

\* "error(message); return nullptr;"
Failed(P, message) == Statement(Null, IF P.thrown THEN P ELSE ParserError(P, message))

RECURSIVE PreviousNonComment(_, _)
\* "while (idx > 0 && tokens_[idx].kind == Comment) --idx"
PreviousNonComment(tokens, idx) ==
    IF idx > 1 /\ tokens[idx].kind = "Comment" THEN PreviousNonComment(tokens, idx - 1) ELSE idx

\* error_at_previous_end: the error is at the end of the token before the
\* cursor, comments skipped; with no token before the cursor it is error().
ErrorAtPreviousEnd(P, message) ==
    IF P.current = 1 THEN ParserError(P, message)
    ELSE [P EXCEPT !.errors =
             Append(@, [message |-> message,
                        line |-> P.tokens[PreviousNonComment(P.tokens, P.current - 1)].line,
                        column |-> P.tokens[PreviousNonComment(P.tokens,
                                                               P.current - 1)].end_column,
                        cursor |-> P.current])]

ExpectToken(P, kind, lexeme, message) ==
    IF Check(P, kind) /\ Peek(P).lexeme = lexeme
    THEN [ok |-> TRUE, P |-> Advance(P)]
    ELSE [ok |-> FALSE, P |-> ErrorAtPreviousEnd(P, message)]

\* "if (!expect_token(Punctuation, ";", message)) return nullptr; return stmt;"
Terminated(stmt, P, message) ==
    With(ExpectToken(P, "Punctuation", ";", message),
         LAMBDA e : Statement(IF e.ok THEN stmt ELSE Null, e.P))

RECURSIVE Synchronize(_)
\* synchronize: tokens are skipped up to and with a ';', or up to a '}' or
\* one of the keywords let, func, if, return, while.
Synchronize(P) ==
    IF AtEnd(P) THEN P
    ELSE IF Peek(P).kind = "Punctuation" /\ Peek(P).lexeme = ";" THEN Advance(P)
    ELSE IF Peek(P).kind = "Punctuation" /\ Peek(P).lexeme = "}" THEN P
    ELSE IF Peek(P).kind = "Keyword"
            /\ Peek(P).lexeme \in {"let", "func", "if", "return", "while"}
    THEN P
    ELSE Synchronize(Advance(P))

\* "synchronize()" after a statement that failed.  History: the cursor where
\* the statement had stopped and the cursor the parser goes on from.
Recover(P) ==
    IF P.thrown THEN P
    ELSE [Synchronize(P) EXCEPT !.synchronized =
             Append(@, [from |-> P.current, to |-> Synchronize(P).current])]

\* parse_type_annotation
ParseTypeAnnotation(P) ==
    IF ~Check(P, "Identifier")
    THEN [type |-> NullOpt, P |-> ParserError(P, "Expected type name")]
    ELSE [type |-> Type(Peek(P).lexeme), P |-> Advance(P)]

\* parse_let_stmt, from its end to its start.
LetAfterInit(name, type, start_tok, r) ==
    IF r.expr = Null THEN Failed(r.P, "Expected expression after '='")
    ELSE Terminated(LetStmt(name, type, r.expr, token_loc(start_tok)), r.P,
                    "Expected ';' after let statement")

LetAfterType(name, type, start_tok, P) ==
    IF ~(Check(P, "Operator") /\ Peek(P).lexeme = "=")
    THEN Failed(P, "Expected '=' in let statement")
    ELSE LetAfterInit(name, type, start_tok, ParseExpr(Advance(P)))

LetAfterColon(name, start_tok, t) ==
    IF t.type = NullOpt THEN Failed(t.P, "Expected type after ':'")
    ELSE LetAfterType(name, t.type, start_tok, t.P)

LetAfterName(name, start_tok, P) ==
    IF CheckPunct(P, ":") THEN LetAfterColon(name, start_tok, ParseTypeAnnotation(Advance(P)))
    ELSE LetAfterType(name, NullOpt, start_tok, P)

ParseLetStmt(P) ==
    IF ~Check(Advance(P), "Identifier")
    THEN Failed(Advance(P), "Expected identifier after 'let'")
    ELSE LetAfterName(Peek(Advance(P)).lexeme, Peek(P), Advance(Advance(P)))

\* parse_return_stmt
ReturnAfterValue(start_tok, r) ==
    IF r.expr = Null THEN Failed(r.P, "Expected expression or ';' after 'return'")
    ELSE Terminated(ReturnStmt(r.expr, token_loc(start_tok)), r.P,
                    "Expected ';' after return statement")

ParseReturnStmt(P) ==
    IF CheckPunct(Advance(P), ";")
    THEN Terminated(ReturnStmt(NullOpt, token_loc(Peek(P))), Advance(P),
                    "Expected ';' after return statement")
    ELSE ReturnAfterValue(Peek(P), ParseExpr(Advance(P)))

\* parse_expr_stmt
ExprStmtOf(r) ==
    IF r.expr = Null THEN Failed(r.P, "Expected expression")
    ELSE Terminated(ExprStmt(r.expr, r.expr.loc), r.P, "Expected ';' after expression")

ParseExprStmt(P) == ExprStmtOf(ParseExpr(P))

\* The parameter loops of parse_func_stmt and parse_operator_decl; an
\* operator's parameter must have a type.
RECURSIVE ParseParams(_, _, _)

ParamAfterType(param_token, t, params, typed) ==
    IF t.type = NullOpt
    THEN [ok |-> FALSE, params |-> params, P |-> ParserError(t.P, "Expected type after ':'")]
    ELSE ParseParams(t.P,
                     Append(params, Parameter(param_token.lexeme, t.type, token_loc(param_token))),
                     typed)

ParamAfterComma(P, params, typed) ==
    IF ~Check(P, "Identifier")
    THEN [ok |-> FALSE, params |-> params, P |-> ParserError(P, "Expected parameter name")]
    ELSE IF CheckPunct(Advance(P), ":")
    THEN ParamAfterType(Peek(P), ParseTypeAnnotation(Advance(Advance(P))), params, typed)
    ELSE IF typed
    THEN [ok |-> FALSE, params |-> params,
          P |-> ParserError(Advance(P), "Expected ':' after parameter name")]
    ELSE ParseParams(Advance(P),
                     Append(params, Parameter(Peek(P).lexeme, NullOpt, token_loc(Peek(P)))),
                     typed)

ParseParams(P, params, typed) ==
    IF CheckPunct(P, ")") THEN [ok |-> TRUE, params |-> params, P |-> P]
    ELSE IF Len(params) > 0 /\ ~CheckPunct(P, ",")
    THEN [ok |-> FALSE, params |-> params,
          P |-> ParserError(P, "Expected ',' between parameters")]
    ELSE ParamAfterComma(IF Len(params) > 0 THEN Advance(P) ELSE P, params, typed)

RECURSIVE ParseStatement(_)
RECURSIVE ParseBlockStmts(_, _)
RECURSIVE ParseBlockStmt(_)
RECURSIVE ParseIfStmt(_)

\* The loop of parse_block_stmt: a statement that failed is followed by
\* synchronize().
BlockAfterStmt(r, list) ==
    IF r.stmt # Null THEN ParseBlockStmts(r.P, Append(list, r.stmt))
    ELSE ParseBlockStmts(Recover(r.P), list)

ParseBlockStmts(P, list) ==
    IF P.thrown \/ AtEnd(P) \/ CheckPunct(P, "}") THEN [stmts |-> list, P |-> P]
    ELSE BlockAfterStmt(ParseStatement(P), list)

BlockOf(start_tok, b) ==
    IF ~CheckPunct(b.P, "}") THEN Failed(b.P, "Expected '}'")
    ELSE Statement(BlockStmt(b.stmts, token_loc(start_tok)), Advance(b.P))

ParseBlockStmt(P) ==
    IF ~CheckPunct(P, "{") THEN Failed(P, "Expected '{'")
    ELSE BlockOf(Peek(P), ParseBlockStmts(Advance(P), <<>>))

\* parse_if_stmt, from its end to its start.
IfWithElse(start_tok, condition, then_branch, e) ==
    IF e.stmt = Null THEN Failed(e.P, "Expected block or if statement after 'else'")
    ELSE Statement(IfStmt(condition, then_branch, e.stmt, token_loc(start_tok)), e.P)

IfWithThen(start_tok, condition, t) ==
    IF t.stmt = Null THEN Failed(t.P, "Expected block after if condition")
    ELSE IF Check(t.P, "Keyword") /\ Peek(t.P).lexeme = "else"
    THEN IfWithElse(start_tok, condition, t.stmt,
                    IF Check(Advance(t.P), "Keyword") /\ Peek(Advance(t.P)).lexeme = "if"
                    THEN ParseIfStmt(Advance(t.P))
                    ELSE ParseBlockStmt(Advance(t.P)))
    ELSE Statement(IfStmt(condition, t.stmt, NullOpt, token_loc(start_tok)), t.P)

IfWithCondition(start_tok, c) ==
    IF c.expr = Null THEN Failed(c.P, "Expected condition after 'if'")
    ELSE IfWithThen(start_tok, c.expr, ParseBlockStmt(c.P))

ParseIfStmt(P) == IfWithCondition(Peek(P), ParseExpr(Advance(P)))

\* parse_while_stmt
WhileWithBody(start_tok, condition, b) ==
    IF b.stmt = Null THEN Failed(b.P, "Expected block after while condition")
    ELSE Statement(WhileStmt(condition, b.stmt, token_loc(start_tok)), b.P)

WhileWithCondition(start_tok, c) ==
    IF c.expr = Null THEN Failed(c.P, "Expected condition after 'while'")
    ELSE WhileWithBody(start_tok, c.expr, ParseBlockStmt(c.P))

ParseWhileStmt(P) == WhileWithCondition(Peek(P), ParseExpr(Advance(P)))

\* parse_func_stmt, from its end to its start.
FuncWithBody(name, params, return_type, start_tok, b) ==
    IF b.stmt = Null THEN Failed(b.P, "Expected function body")
    ELSE Statement(FuncStmt(name, params, return_type, b.stmt, token_loc(start_tok)), b.P)

FuncAfterSignature(name, params, return_type, start_tok, P) ==
    IF CheckPunct(P, "{")
    THEN FuncWithBody(name, params, return_type, start_tok, ParseBlockStmt(P))
    ELSE IF CheckPunct(P, ";")
    THEN Statement(FuncStmt(name, params, return_type, NullOpt, token_loc(start_tok)),
                   Advance(P))
    ELSE Failed(P, "Expected '{' or ';' after function signature")

FuncAfterReturnType(name, params, start_tok, t) ==
    IF t.type = NullOpt THEN Failed(t.P, "Expected return type after ':'")
    ELSE FuncAfterSignature(name, params, t.type, start_tok, t.P)

FuncAfterParams(name, start_tok, ps) ==
    IF ~ps.ok THEN Statement(Null, ps.P)
    ELSE IF CheckPunct(Advance(ps.P), ":")
    THEN FuncAfterReturnType(name, ps.params, start_tok,
                             ParseTypeAnnotation(Advance(Advance(ps.P))))
    ELSE FuncAfterSignature(name, ps.params, NullOpt, start_tok, Advance(ps.P))

ParseFuncStmt(P) ==
    IF ~Check(Advance(P), "Identifier")
    THEN Failed(Advance(P), "Expected function name after 'func'")
    ELSE IF ~CheckPunct(Advance(Advance(P)), "(")
    THEN Failed(Advance(Advance(P)), "Expected '(' after function name")
    ELSE FuncAfterParams(Peek(Advance(P)).lexeme, Peek(P),
                         ParseParams(Advance(Advance(Advance(P))), <<>>, FALSE))

\* parse_operator_decl, from its end to its start.  D is the declaration
\* read so far.
OperatorWithBody(D, b) ==
    IF b.stmt = Null THEN Failed(b.P, "Expected function body")
    ELSE Statement([D EXCEPT !.body = b.stmt], b.P)

OperatorAfterPrecedence(D, P) ==
    IF CheckPunct(P, "{") THEN OperatorWithBody(D, ParseBlockStmt(P))
    ELSE Terminated(D, P, "Expected ';' after operator declaration")

\* "precedence = std::stoi(advance().lexeme)" and the optional associativity.
OperatorAfterPrec(D, P) ==
    IF ~Check(P, "Integer") THEN Failed(P, "Expected integer precedence value")
    ELSE IF StoiThrows(Peek(P).lexeme) THEN Statement(Null, [P EXCEPT !.thrown = TRUE])
    ELSE IF Check(Advance(P), "Keyword")
            /\ Peek(Advance(P)).lexeme \in {"assoc_left", "assoc_right"}
    THEN OperatorAfterPrecedence(
             [D EXCEPT !.precedence = Stoi(Peek(P).lexeme),
                       !.assoc = IF Peek(Advance(P)).lexeme = "assoc_left" THEN "Left"
                                 ELSE "Right"],
             Advance(Advance(P)))
    ELSE OperatorAfterPrecedence([D EXCEPT !.precedence = Stoi(Peek(P).lexeme)], Advance(P))

OperatorAfterReturnType(D, t) ==
    IF t.type = NullOpt THEN Failed(t.P, "Expected return type after ':'")
    ELSE IF D.position # "Infix"
    THEN OperatorAfterPrecedence([D EXCEPT !.return_type = t.type], t.P)
    ELSE IF ~(Check(t.P, "Keyword") /\ Peek(t.P).lexeme = "prec")
    THEN Failed(t.P, "Expected 'prec' keyword for infix operator")
    ELSE OperatorAfterPrec([D EXCEPT !.return_type = t.type], Advance(t.P))

OperatorAfterParams(D, ps) ==
    IF ~ps.ok THEN Statement(Null, ps.P)
    ELSE IF D.position = "Infix" /\ Len(ps.params) # 2
    THEN Failed(ps.P, "Infix operator must have exactly 2 parameters")
    ELSE IF D.position = "Prefix" /\ Len(ps.params) # 1
    THEN Failed(ps.P, "Prefix operator must have exactly 1 parameter")
    ELSE IF D.position = "Postfix" /\ Len(ps.params) # 1
    THEN Failed(ps.P, "Postfix operator must have exactly 1 parameter")
    ELSE IF ~CheckPunct(Advance(ps.P), ":")
    THEN Failed(Advance(ps.P), "Expected ':' after parameters")
    ELSE OperatorAfterReturnType([D EXCEPT !.params = ps.params],
                                 ParseTypeAnnotation(Advance(Advance(ps.P))))

OperatorAfterPosition(position, start_tok, P) ==
    IF ~Check(P, "Operator") THEN Failed(P, "Expected operator symbol")
    ELSE IF ~CheckPunct(Advance(P), "(") THEN Failed(Advance(P), "Expected '(' after operator symbol")
    ELSE OperatorAfterParams(
             OperatorDeclStmt(Peek(P).lexeme, position, <<>>, NullOpt, 0, "Left", NullOpt,
                              token_loc(start_tok)),
             ParseParams(Advance(Advance(P)), <<>>, TRUE))

ParseOperatorDecl(P) ==
    IF ~Check(Advance(P), "Keyword")
    THEN Failed(Advance(P), "Expected operator position ('prefix', 'infix', or 'postfix')")
    ELSE IF Peek(Advance(P)).lexeme \notin {"prefix", "infix", "postfix"}
    THEN Failed(Advance(Advance(P)), "Expected 'prefix', 'infix', or 'postfix'")
    ELSE OperatorAfterPosition(
             CASE Peek(Advance(P)).lexeme = "prefix" -> "Prefix"
               [] Peek(Advance(P)).lexeme = "infix" -> "Infix"
               [] Peek(Advance(P)).lexeme = "postfix" -> "Postfix",
             Peek(P), Advance(Advance(P)))

\* parse_stmt
ParseStatement(P) ==
    IF Peek(P).kind = "Keyword" /\ Peek(P).lexeme = "let" THEN ParseLetStmt(P)
    ELSE IF Peek(P).kind = "Keyword" /\ Peek(P).lexeme = "func" THEN ParseFuncStmt(P)
    ELSE IF Peek(P).kind = "Keyword" /\ Peek(P).lexeme = "operator" THEN ParseOperatorDecl(P)
    ELSE IF Peek(P).kind = "Keyword" /\ Peek(P).lexeme = "if" THEN ParseIfStmt(P)
    ELSE IF Peek(P).kind = "Keyword" /\ Peek(P).lexeme = "return" THEN ParseReturnStmt(P)
    ELSE IF Peek(P).kind = "Keyword" /\ Peek(P).lexeme = "while" THEN ParseWhileStmt(P)
    ELSE IF CheckPunct(P, "{") THEN ParseBlockStmt(P)
    ELSE ParseExprStmt(P)

RECURSIVE ParseProgramFrom(_, _)

\* The loop of parse_program.  When a statement fails without a token
\* consumed and synchronize() consumes none, the next turn of the loop
\* starts from the same cursor and does the same: the loop never ends.
ProgramAfterStmt(P, r, list) ==
    IF r.stmt # Null THEN ParseProgramFrom(r.P, Append(list, r.stmt))
    ELSE IF r.P.thrown THEN [stmts |-> list, P |-> r.P, diverges |-> FALSE]
    ELSE IF Synchronize(r.P).current = P.current
    THEN [stmts |-> list, P |-> Recover(r.P), diverges |-> TRUE]
    ELSE ParseProgramFrom(Recover(r.P), list)

ParseProgramFrom(P, list) ==
    IF P.thrown \/ AtEnd(P) THEN [stmts |-> list, P |-> P, diverges |-> FALSE]
    ELSE ProgramAfterStmt(P, ParseStatement(P), list)

\* parse_program
ParseProgram(P) == ParseProgramFrom(P, <<>>)

-----------------------------------------------------------------------------
(* Operator resolver: src/src/operator_resolver.cpp *)

\* OperatorResolver::error: the location is part of the message only when line > 0.
ResolverError(errors, message, line, column) ==
    Append(errors, [message |-> message,
                    line |-> IF line > 0 THEN line ELSE 0,
                    column |-> IF line > 0 THEN column ELSE 0])

\* The initial value of lowest_prec in build_infix_tree.
InitialLowestPrec == 1000

RECURSIVE ScanOperators(_, _, _, _, _, _, _, _)
\* The scan loop of build_infix_tree over operators i .. end - 1 (operator i
\* stands between operands i and i + 1).  conflict is the index of the
\* operator the mixed-associativity error is reported at, or 0.
ScanOperators(precedences, assocs, i, end, lowest_prec, split_pos, found, lowest_prec_assoc) ==
    IF i >= end
    THEN [conflict |-> 0, split_pos |-> split_pos, found |-> found,
          lowest_prec_assoc |-> lowest_prec_assoc]
    ELSE LET prec == precedences[i]
             assoc == assocs[i]
         IN  IF prec < lowest_prec
             THEN ScanOperators(precedences, assocs, i + 1, end, prec, i, TRUE, assoc)
             ELSE IF prec = lowest_prec
             THEN IF assoc # lowest_prec_assoc
                  THEN [conflict |-> i, split_pos |-> split_pos, found |-> found,
                        lowest_prec_assoc |-> lowest_prec_assoc]
                  ELSE ScanOperators(precedences, assocs, i + 1, end, lowest_prec,
                                     IF assoc = "Left" THEN i ELSE split_pos,
                                     found, lowest_prec_assoc)
             ELSE ScanOperators(precedences, assocs, i + 1, end, lowest_prec, split_pos,
                                found, lowest_prec_assoc)

RECURSIVE BuildInfixTree(_, _, _, _, _, _, _, _)

\* The end of build_infix_tree: the binary node over the two subtrees, at the
\* location of the operator it splits on; null when the right subtree is null.
JoinSubtrees(op, loc, left, right) ==
    IF right.expr = Null
    THEN [expr |-> Null, errors |-> right.errors]
    ELSE [expr |-> BinaryExpr(op, left.expr, right.expr, loc), errors |-> right.errors]

\* build_infix_tree once the left subtree is built: null when it is null,
\* else the right subtree is built over [split_pos + 1, end].
BuildRight(operands, operators, precedences, assocs, locations, split_pos, end, left) ==
    IF left.expr = Null
    THEN [expr |-> Null, errors |-> left.errors]
    ELSE JoinSubtrees(operators[split_pos], locations[split_pos], left,
                      BuildInfixTree(operands, operators, precedences, assocs, locations,
                                     split_pos + 1, end, left.errors))

\* build_infix_tree after its scan loop.
SplitRange(operands, operators, precedences, assocs, locations, start, end, errors, scan) ==
    IF scan.conflict # 0
    THEN [expr |-> Null,
          errors |-> ResolverError(errors, "Mixed associativity at same precedence level",
                                   locations[scan.conflict].line,
                                   locations[scan.conflict].column)]
    ELSE IF ~scan.found
    THEN [expr |-> operands[start], errors |-> errors]
    ELSE BuildRight(operands, operators, precedences, assocs, locations, scan.split_pos, end,
                    BuildInfixTree(operands, operators, precedences, assocs, locations,
                                   start, scan.split_pos, errors))

BuildInfixTree(operands, operators, precedences, assocs, locations, start, end, errors) ==
    IF start = end THEN [expr |-> operands[start], errors |-> errors]
    ELSE SplitRange(operands, operators, precedences, assocs, locations, start, end, errors,
                    ScanOperators(precedences, assocs, start, end, InitialLowestPrec,
                                  start, FALSE, "Left"))

RECURSIVE ReadPrefixOps(_, _, _, _)
\* The inner loop "Read prefix operators": bad is the index of an operator
\* that is not declared as a prefix operator, or 0.
ReadPrefixOps(items, symbol_table, idx, prefix_ops) ==
    IF idx <= Len(items) /\ items[idx].kind = "Operator"
    THEN IF FindOperator(symbol_table, items[idx].op, "Prefix") = NullOpt
         THEN [bad |-> idx, prefix_ops |-> prefix_ops, idx |-> idx]
         ELSE ReadPrefixOps(items, symbol_table, idx + 1, Append(prefix_ops, items[idx].op))
    ELSE [bad |-> 0, prefix_ops |-> prefix_ops, idx |-> idx]

RECURSIVE ApplyPrefixOpsForward(_, _, _, _)
\* ApplyPrefixOps with the loop run forward over prefix_ops: the first
\* prefix operator becomes the innermost one.
ApplyPrefixOpsForward(prefix_ops, i, current, loc) ==
    IF i < 1 THEN current
    ELSE ApplyPrefixOpsForward(prefix_ops, i - 1,
                               UnaryExpr(prefix_ops[Len(prefix_ops) - i + 1], current,
                                         "Prefix", loc),
                               loc)

RECURSIVE ApplyPrefixOps(_, _, _, _)
\* "for (i = size - 1; i >= 0; --i) current = UnaryExpr(prefix_ops[i], current, Prefix, seq->loc)"
ApplyPrefixOps(prefix_ops, i, current, loc) ==
    IF i < 1 THEN current
    ELSE ApplyPrefixOps(prefix_ops, i - 1, UnaryExpr(prefix_ops[i], current, "Prefix", loc), loc)

RECURSIVE ReadPostfixOps(_, _, _, _, _)
\* The loop "Read postfix operators": every following operator declared as
\* postfix wraps the current expression.
ReadPostfixOps(items, symbol_table, idx, current, loc) ==
    IF idx <= Len(items) /\ items[idx].kind = "Operator"
       /\ FindOperator(symbol_table, items[idx].op, "Postfix") # NullOpt
    THEN ReadPostfixOps(items, symbol_table, idx + 1,
                        UnaryExpr(items[idx].op, current, "Postfix", loc), loc)
    ELSE [current |-> current, idx |-> idx]

RECURSIVE ResolveOperatorSeq(_, _, _)
RECURSIVE CloneOperand(_, _, _, _)
RECURSIVE CloneArgs(_, _, _, _, _)
RECURSIVE FoldItems(_, _, _, _, _)

\* "cloned_args.push_back(clone_operand(arg.get()))", r the clone.
AppendCloned(args, seq, symbol_table, cloned_args, r) ==
    CloneArgs(args, seq, symbol_table, Append(cloned_args, r.expr), r.errors)

\* The argument loop of the Call case of clone_operand.
CloneArgs(args, seq, symbol_table, cloned_args, errors) ==
    IF Len(cloned_args) = Len(args) THEN [args |-> cloned_args, errors |-> errors]
    ELSE AppendCloned(args, seq, symbol_table, cloned_args,
                      CloneOperand(args[Len(cloned_args) + 1], seq, symbol_table, errors))

\* The CallExpr the Call case of clone_operand returns.
CallOfCloned(operand, callee, args) ==
    [expr |-> CallExpr(callee.expr, args.args, operand.loc), errors |-> args.errors]

\* The Call case of clone_operand once the callee is cloned.
CloneCall(operand, seq, symbol_table, callee) ==
    CallOfCloned(operand, callee,
                 CloneArgs(operand.args, seq, symbol_table, <<>>, callee.errors))

\* CloneOperand as a plain copy: a nested sequence is copied, not resolved.
CloneOperandCopy(operand, seq, symbol_table, errors) ==
    IF operand.kind \in {"IntLiteral", "FloatLiteral", "StringLiteral", "BoolLiteral",
                         "Identifier", "OperatorSeq", "Call"}
    THEN [expr |-> operand, errors |-> errors]
    ELSE [expr |-> Null,
          errors |-> ResolverError(errors, "Cannot clone expression", seq.loc.line,
                                   seq.loc.column)]

\* The lambda clone_operand of resolve_operator_seq.
CloneOperand(operand, seq, symbol_table, errors) ==
    IF operand.kind \in {"IntLiteral", "FloatLiteral", "StringLiteral", "BoolLiteral",
                         "Identifier"}
    THEN [expr |-> operand, errors |-> errors]
    ELSE IF operand.kind = "OperatorSeq"
    THEN ResolveOperatorSeq(operand, symbol_table, errors)
    ELSE IF operand.kind = "Call"
    THEN CloneCall(operand, seq, symbol_table,
                   CloneOperand(operand.callee, seq, symbol_table, errors))
    ELSE [expr |-> Null,
          errors |-> ResolverError(errors, "Cannot clone expression", seq.loc.line,
                                   seq.loc.column)]

\* Step 1, the infix operator after an operand: op_info is what find_operator
\* returned for it; its precedence, associativity and location are recorded.
FoldInfix(seq, symbol_table, idx, acc, errors, op_info) ==
    IF op_info = NullOpt
    THEN [ok |-> FALSE, acc |-> acc,
          errors |-> ResolverError(errors, "cannot be used as infix operator",
                                   seq.items[idx].loc.line, seq.items[idx].loc.column)]
    ELSE FoldItems(seq, symbol_table, idx + 1,
                   [operands |-> acc.operands,
                    infix_ops |-> Append(acc.infix_ops, seq.items[idx].op),
                    infix_precs |-> Append(acc.infix_precs, op_info.precedence),
                    infix_assocs |-> Append(acc.infix_assocs, op_info.assoc),
                    infix_locs |-> Append(acc.infix_locs, seq.items[idx].loc)],
                   errors)

\* Step 1 after the postfix loop: the operand is pushed; what follows it, if
\* anything, has to be an infix operator.
FoldAfterPostfix(seq, symbol_table, acc, errors, post) ==
    IF post.idx > Len(seq.items)
    THEN [ok |-> TRUE, acc |-> [acc EXCEPT !.operands = Append(@, post.current)],
          errors |-> errors]
    ELSE IF seq.items[post.idx].kind # "Operator"
    THEN [ok |-> FALSE, acc |-> [acc EXCEPT !.operands = Append(@, post.current)],
          errors |-> ResolverError(errors, "Expected infix operator between operands",
                                   seq.loc.line, seq.loc.column)]
    ELSE FoldInfix(seq, symbol_table, post.idx,
                   [acc EXCEPT !.operands = Append(@, post.current)], errors,
                   FindOperator(symbol_table, seq.items[post.idx].op, "Infix"))

\* Step 1 after the operand is cloned: the prefix operators wrap it, then
\* the postfix operators that follow it.
FoldAfterClone(seq, symbol_table, acc, pre, cloned) ==
    IF cloned.expr = Null
    THEN [ok |-> FALSE, acc |-> acc, errors |-> cloned.errors]
    ELSE FoldAfterPostfix(seq, symbol_table, acc, cloned.errors,
                          ReadPostfixOps(seq.items, symbol_table, pre.idx + 1,
                                         ApplyPrefixOps(pre.prefix_ops, Len(pre.prefix_ops),
                                                        cloned.expr, seq.loc),
                                         seq.loc))

\* Step 1 after the prefix loop: an operand has to follow.
FoldAfterPrefix(seq, symbol_table, acc, errors, pre) ==
    IF pre.bad # 0
    THEN [ok |-> FALSE, acc |-> acc,
          errors |-> ResolverError(errors, "cannot be used as prefix operator here",
                                   seq.items[pre.bad].loc.line,
                                   seq.items[pre.bad].loc.column)]
    ELSE IF pre.idx > Len(seq.items) \/ seq.items[pre.idx].kind # "Operand"
    THEN [ok |-> FALSE, acc |-> acc,
          errors |-> ResolverError(errors, "Expected operand after prefix operators",
                                   seq.loc.line, seq.loc.column)]
    ELSE FoldAfterClone(seq, symbol_table, acc, pre,
                        CloneOperand(seq.items[pre.idx].operand, seq, symbol_table, errors))

\* Step 1 of resolve_operator_seq, the outer while loop.  acc holds the
\* vectors operands, infix_ops, infix_precs, infix_assocs and infix_locs.
FoldItems(seq, symbol_table, idx, acc, errors) ==
    IF idx > Len(seq.items) THEN [ok |-> TRUE, acc |-> acc, errors |-> errors]
    ELSE FoldAfterPrefix(seq, symbol_table, acc, errors,
                         ReadPrefixOps(seq.items, symbol_table, idx, <<>>))

\* resolve_operator_seq after step 1: the validation and step 2.
TreeOfFold(seq, fold) ==
    IF ~fold.ok THEN [expr |-> Null, errors |-> fold.errors]
    ELSE IF Len(fold.acc.infix_ops) # Len(fold.acc.operands) - 1
    THEN [expr |-> Null,
          errors |-> ResolverError(fold.errors, "Operator sequence structure error",
                                   seq.loc.line, seq.loc.column)]
    ELSE IF Len(fold.acc.operands) = 1
    THEN [expr |-> fold.acc.operands[1], errors |-> fold.errors]
    ELSE BuildInfixTree(fold.acc.operands, fold.acc.infix_ops, fold.acc.infix_precs,
                        fold.acc.infix_assocs, fold.acc.infix_locs, 1,
                        Len(fold.acc.operands), fold.errors)

ResolveOperatorSeq(seq, symbol_table, errors) ==
    TreeOfFold(seq, FoldItems(seq, symbol_table, 1,
                              [operands |-> <<>>, infix_ops |-> <<>>, infix_precs |-> <<>>,
                               infix_assocs |-> <<>>, infix_locs |-> <<>>],
                              errors))

RECURSIVE ResolveExpr(_, _, _)
RECURSIVE ResolveArgs(_, _, _, _)

\* "arg = resolve_expr(std::move(arg), ...)", r the resolved argument.
AppendResolved(args, symbol_table, done, r) ==
    ResolveArgs(args, symbol_table, Append(done, r.expr), r.errors)

\* "for (auto &arg : call->args) arg = resolve_expr(std::move(arg), ...)"
ResolveArgs(args, symbol_table, done, errors) ==
    IF Len(done) = Len(args) THEN [args |-> done, errors |-> errors]
    ELSE AppendResolved(args, symbol_table, done,
                        ResolveExpr(args[Len(done) + 1], symbol_table, errors))

\* The call resolve_expr returns: the same node with its callee and
\* arguments replaced.
CallOfResolved(expr, callee, args) ==
    [expr |-> [expr EXCEPT !.callee = callee.expr, !.args = args.args],
     errors |-> args.errors]

\* The Call case of resolve_expr once the callee is resolved.
ResolveCall(expr, symbol_table, callee) ==
    CallOfResolved(expr, callee, ResolveArgs(expr.args, symbol_table, <<>>, callee.errors))

\* ResolveExpr that takes every node with operands for a sequence still to
\* be resolved: a binary or unary node is rejected.
ResolveExprStrict(expr, symbol_table, errors) ==
    IF expr = Null THEN [expr |-> Null, errors |-> errors]
    ELSE IF expr.kind = "OperatorSeq"
    THEN ResolveOperatorSeq(expr, symbol_table, errors)
    ELSE IF expr.kind = "Call"
    THEN ResolveCall(expr, symbol_table, ResolveExpr(expr.callee, symbol_table, errors))
    ELSE IF expr.kind \in {"Binary", "Unary"}
    THEN [expr |-> Null,
          errors |-> ResolverError(errors, "Unresolved expression", expr.loc.line,
                                   expr.loc.column)]
    ELSE [expr |-> expr, errors |-> errors]

ResolveExpr(expr, symbol_table, errors) ==
    IF expr = Null THEN [expr |-> Null, errors |-> errors]
    ELSE IF expr.kind = "OperatorSeq"
    THEN ResolveOperatorSeq(expr, symbol_table, errors)
    ELSE IF expr.kind = "Call"
    THEN ResolveCall(expr, symbol_table, ResolveExpr(expr.callee, symbol_table, errors))
    ELSE [expr |-> expr, errors |-> errors]

RECURSIVE ResolveStmt(_, _, _)
RECURSIVE ResolveStmts(_, _, _, _)

\* The statement with one of its expressions replaced by the resolved r.
SetInit(stmt, r) == [stmt |-> [stmt EXCEPT !.init = r.expr], errors |-> r.errors]
SetValue(stmt, r) == [stmt |-> [stmt EXCEPT !.value = r.expr], errors |-> r.errors]
SetExpr(stmt, r) == [stmt |-> [stmt EXCEPT !.expr = r.expr], errors |-> r.errors]
\* The statement with its body, or its statement list, replaced by the resolved r.
SetBody(stmt, r) == [stmt |-> [stmt EXCEPT !.body = r.stmt], errors |-> r.errors]
SetStmts(stmt, r) == [stmt |-> [stmt EXCEPT !.stmts = r.stmts], errors |-> r.errors]

\* The While case of resolve_stmt: the condition c is resolved, then the body.
WhileAfterBody(stmt, c, b) ==
    [stmt |-> [stmt EXCEPT !.condition = c.expr, !.body = b.stmt], errors |-> b.errors]

WhileAfterCondition(stmt, symbol_table, c) ==
    WhileAfterBody(stmt, c,
                   IF stmt.body # Null
                   THEN ResolveStmt(stmt.body, symbol_table, c.errors)
                   ELSE [stmt |-> Null, errors |-> c.errors])

\* The If case of resolve_stmt: the condition c, the then branch t, the else branch e.
IfAfterElse(stmt, c, t, e) ==
    [stmt |-> [stmt EXCEPT !.condition = c.expr, !.then_branch = t.stmt,
                           !.else_branch = e.stmt],
     errors |-> e.errors]

IfAfterThen(stmt, symbol_table, c, t) ==
    IfAfterElse(stmt, c, t,
                IF stmt.else_branch # NullOpt
                THEN ResolveStmt(stmt.else_branch, symbol_table, t.errors)
                ELSE [stmt |-> NullOpt, errors |-> t.errors])

IfAfterCondition(stmt, symbol_table, c) ==
    IfAfterThen(stmt, symbol_table, c,
                IF stmt.then_branch # Null
                THEN ResolveStmt(stmt.then_branch, symbol_table, c.errors)
                ELSE [stmt |-> Null, errors |-> c.errors])

\* "resolve_stmt(s.get(), ...)" for one statement of a list, r the outcome.
AppendResolvedStmt(list, symbol_table, done, r) ==
    ResolveStmts(list, symbol_table, Append(done, r.stmt), r.errors)

\* resolve_stmt over a statement list, in order (the Block case, and the
\* driver's loop over the top-level statements).
ResolveStmts(list, symbol_table, done, errors) ==
    IF Len(done) = Len(list) THEN [stmts |-> done, errors |-> errors]
    ELSE AppendResolvedStmt(list, symbol_table, done,
                            ResolveStmt(list[Len(done) + 1], symbol_table, errors))

ResolveStmt(stmt, symbol_table, errors) ==
    IF stmt = Null THEN [stmt |-> stmt, errors |-> errors]
    ELSE IF stmt.kind = "Let"
    THEN IF stmt.init # Null
         THEN SetInit(stmt, ResolveExpr(stmt.init, symbol_table, errors))
         ELSE [stmt |-> stmt, errors |-> errors]
    ELSE IF stmt.kind \in {"Func", "OperatorDecl"}
    THEN IF stmt.body # NullOpt
         THEN SetBody(stmt, ResolveStmt(stmt.body, symbol_table, errors))
         ELSE [stmt |-> stmt, errors |-> errors]
    ELSE IF stmt.kind = "If"
    THEN IfAfterCondition(stmt, symbol_table,
                          IF stmt.condition # Null
                          THEN ResolveExpr(stmt.condition, symbol_table, errors)
                          ELSE [expr |-> Null, errors |-> errors])
    ELSE IF stmt.kind = "Return"
    THEN IF stmt.value # NullOpt
         THEN SetValue(stmt, ResolveExpr(stmt.value, symbol_table, errors))
         ELSE [stmt |-> stmt, errors |-> errors]
    ELSE IF stmt.kind = "While"
    THEN WhileAfterCondition(stmt, symbol_table,
                             IF stmt.condition # Null
                             THEN ResolveExpr(stmt.condition, symbol_table, errors)
                             ELSE [expr |-> Null, errors |-> errors])
    ELSE IF stmt.kind = "Expr"
    THEN IF stmt.expr # Null
         THEN SetExpr(stmt, ResolveExpr(stmt.expr, symbol_table, errors))
         ELSE [stmt |-> stmt, errors |-> errors]
    ELSE IF stmt.kind = "Block"
    THEN SetStmts(stmt, ResolveStmts(stmt.stmts, symbol_table, <<>>, errors))
    ELSE [stmt |-> stmt, errors |-> errors]

-----------------------------------------------------------------------------
(* Scopes and the scoped symbol table: src/include/scope.hpp, src/unnamed/part_013 *)

VariableBinding(name, type, line, column, origin) ==
    [name |-> name, type |-> type, line |-> line, column |-> column, origin |-> origin]

FunctionSignature(name, param_types, return_type, is_declaration_only, origin) ==
    [name |-> name, param_types |-> param_types, return_type |-> return_type,
     is_declaration_only |-> is_declaration_only, origin |-> origin]

\* A scope names its parent by its index in the table's scope list (0: none).
Scope(kind, parent, description) ==
    [kind |-> kind, parent |-> parent, description |-> description,
     variables |-> EmptyMap, children |-> <<>>]

\* Scope::add_variable: "variables_[binding.name] = binding"
ScopeAddVariable(scope, binding) ==
    [scope EXCEPT !.variables =
        IF binding.name \in DOMAIN @
        THEN [@ EXCEPT ![binding.name] = binding]
        ELSE @ @@ (binding.name :> binding)]

HasVariableLocal(scope, name) == name \in DOMAIN scope.variables

\* ScopedSymbolTable::ScopedSymbolTable: the global scope is scope 1, the
\* scopes of scopes_ follow it in creation order.
ScopedSymbolTable ==
    [functions |-> EmptyMap, operators |-> EmptyMap,
     scopes |-> <<Scope("Global", 0, <<>>)>>, current_scope |-> 1]

CurrentScope(table) == table.scopes[table.current_scope]

PushScope(table, kind, description) ==
    LET new == Len(table.scopes) + 1
    IN  [table EXCEPT
            !.scopes = Append([@ EXCEPT ![table.current_scope].children = Append(@, new)],
                              Scope(kind, table.current_scope, description)),
            !.current_scope = new]

PopScope(table) ==
    IF CurrentScope(table).parent # 0
    THEN [table EXCEPT !.current_scope = CurrentScope(table).parent]
    ELSE table

AddVariable(table, binding) ==
    [table EXCEPT !.scopes[table.current_scope] = ScopeAddVariable(@, binding)]

\* SymbolTable::add_function: "functions_[sig.name].push_back(sig)"
AddFunction(table, sig) ==
    [table EXCEPT !.functions =
        IF sig.name \in DOMAIN @
        THEN [@ EXCEPT ![sig.name] = Append(@, sig)]
        ELSE @ @@ (sig.name :> <<sig>>)]

TableAddOperator(table, info) == [table EXCEPT !.operators = AddOperator(@, info)]

-----------------------------------------------------------------------------
(* Symbol-table builder: src/unnamed/part_013 *)

\* The builder's fields, with the table it fills and the history of the
\* declarations it met.
SymbolTableBuilder(table, errors, log) ==
    [symbols |-> table, errors_ |-> errors, collecting_prelude_ |-> FALSE,
     next_block_num_ |-> 0, log |-> log]

BuilderError(B, message, line, column) ==
    [B EXCEPT !.errors_ = Append(@, [message |-> message, line |-> line, column |-> column])]

\* History only: one entry for each declaration the builder meets.
Logged(B, decl, name, loc, outcome) ==
    [B EXCEPT !.log = Append(@, [decl |-> decl, name |-> name,
                                 scope |-> B.symbols.current_scope,
                                 scope_kind |-> CurrentScope(B.symbols).kind,
                                 line |-> loc.line, column |-> loc.column,
                                 outcome |-> outcome])]

Origin(B) == IF B.collecting_prelude_ THEN "Prelude" ELSE "User"

get_type_name(type) == IF type = Null THEN "" ELSE type.name

RECURSIVE FirstUntyped(_, _)
\* The first parameter without a type annotation, or 0.
FirstUntyped(params, i) ==
    IF i > Len(params) THEN 0
    ELSE IF params[i].type = NullOpt THEN i
    ELSE FirstUntyped(params, i + 1)

ParamTypes(params) == [i \in 1..Len(params) |-> get_type_name(params[i].type)]

RECURSIVE AddParameters(_, _, _)
\* "for (param : func->params) symbols.add_variable(binding)"
AddParameters(B, params, i) ==
    IF i > Len(params) THEN B
    ELSE LET param == params[i]
             type == IF param.type # NullOpt THEN get_type_name(param.type) ELSE ""
             binding == VariableBinding(param.name, type, param.loc.line,
                                        param.loc.column, Origin(B))
             B1 == [Logged(B, "param", param.name, param.loc, "added")
                       EXCEPT !.symbols = AddVariable(@, binding)]
         IN  AddParameters(B1, params, i + 1)

ProcessLet(let, B) ==
    IF HasVariableLocal(CurrentScope(B.symbols), let.name)
    THEN Logged(BuilderError(B, "already defined in current scope", let.loc.line,
                             let.loc.column),
                "let", let.name, let.loc, "error")
    ELSE LET type_name == IF let.type # NullOpt THEN get_type_name(let.type) ELSE ""
             binding == VariableBinding(let.name, type_name, let.loc.line,
                                        let.loc.column, Origin(B))
         IN  [Logged(B, "let", let.name, let.loc, "added")
                 EXCEPT !.symbols = AddVariable(@, binding)]

ProcessOperatorDecl(op, B) ==
    LET untyped == FirstUntyped(op.params, 1)
    IN  IF untyped # 0
        THEN Logged(BuilderError(B, "Operator parameter requires explicit type",
                                 op.params[untyped].loc.line, op.params[untyped].loc.column),
                    "operator", op.op, op.loc, "error")
        ELSE IF op.return_type = NullOpt
        THEN Logged(BuilderError(B, "Operator must have explicit return type",
                                 op.loc.line, op.loc.column),
                    "operator", op.op, op.loc, "error")
        ELSE LET signature == OperatorSignature(ParamTypes(op.params),
                                                get_type_name(op.return_type))
                 info == OperatorInfo(op.op, op.position, op.precedence, op.assoc,
                                      signature, Origin(B))
             IN  [Logged(B, "operator", op.op, op.loc, "added")
                     EXCEPT !.symbols = TableAddOperator(@, info)]

RECURSIVE ProcessStmt(_, _)
RECURSIVE ProcessStmts(_, _, _)

\* process_stmt over a statement list, in order.
ProcessStmts(list, i, B) ==
    IF i > Len(list) THEN B
    ELSE ProcessStmts(list, i + 1, ProcessStmt(list[i], B))

ProcessFuncDecl(func, B) ==
    IF CurrentScope(B.symbols).kind # "Global"
    THEN Logged(BuilderError(B, "Nested function definitions are not yet supported",
                             func.loc.line, func.loc.column),
                "func", func.name, func.loc, "error")
    ELSE LET untyped == FirstUntyped(func.params, 1)
         IN  IF untyped # 0
             THEN Logged(BuilderError(B, "Function parameter requires explicit type",
                                      func.params[untyped].loc.line,
                                      func.params[untyped].loc.column),
                         "func", func.name, func.loc, "error")
             ELSE
             LET return_type == IF func.return_type # NullOpt
                                THEN get_type_name(func.return_type) ELSE ""
                 sig == FunctionSignature(func.name, ParamTypes(func.params), return_type,
                                          func.body = NullOpt, Origin(B))
                 B1 == [Logged(B, "func", func.name, func.loc, "added")
                           EXCEPT !.symbols = AddFunction(@, sig)]
             IN  IF func.body = NullOpt THEN B1
                 ELSE LET B2 == [B1 EXCEPT !.symbols =
                                     PushScope(@, "Function", <<"function", func.name>>)]
                          B3 == AddParameters(B2, func.params, 1)
                          B4 == ProcessStmt(func.body, B3)
                      IN  [B4 EXCEPT !.symbols = PopScope(@)]

ProcessBlock(block, B, block_num) ==
    LET B1 == [B EXCEPT !.symbols =
                   PushScope(@, "Block", <<"block", block_num, block.loc.line>>)]
        B2 == ProcessStmts(block.stmts, 1, B1)
    IN  [B2 EXCEPT !.symbols = PopScope(@)]

\* The If case of process_stmt once the then branch is processed.
ProcessElse(stmt, B) ==
    IF stmt.else_branch # NullOpt THEN ProcessStmt(stmt.else_branch, B) ELSE B

ProcessStmt(stmt, B) ==
    IF stmt = Null THEN B
    ELSE IF stmt.kind = "Func" THEN ProcessFuncDecl(stmt, B)
    ELSE IF stmt.kind = "OperatorDecl" THEN ProcessOperatorDecl(stmt, B)
    ELSE IF stmt.kind = "Let" THEN ProcessLet(stmt, B)
    ELSE IF stmt.kind = "Block"
    THEN ProcessBlock(stmt, [B EXCEPT !.next_block_num_ = @ + 1], B.next_block_num_)
    ELSE IF stmt.kind = "If"
    THEN ProcessElse(stmt, ProcessStmt(stmt.then_branch, B))
    ELSE IF stmt.kind = "While" THEN ProcessStmt(stmt.body, B)
    ELSE B

\* SymbolTableBuilder::collect: the block counter restarts, then every
\* top-level statement is processed.
Collect(list, B) == ProcessStmts(list, 1, [B EXCEPT !.next_block_num_ = 0])

-----------------------------------------------------------------------------
(* Type checker: src/src/type_checker.cpp *)

\* OperatorTable::find_operators and SymbolTable::find_functions: all the
\* overloads stored under the key, in the order they were added.
FindOperators(table, op, position) ==
    IF <<op, position>> \in DOMAIN table.operators THEN table.operators[<<op, position>>]
    ELSE <<>>

FindFunctions(table, name) ==
    IF name \in DOMAIN table.functions THEN table.functions[name] ELSE <<>>

\* TypeChecker::check starts with the global scope pushed and no error.
TypeChecker == [scope_stack_ |-> << EmptyMap >>, errors_ |-> <<>>]

TypeError(errors_, message, loc) ==
    Append(errors_, [message |-> message, line |-> loc.line, column |-> loc.column])

TypeCheckerPushScope(T) == [T EXCEPT !.scope_stack_ = Append(@, EmptyMap)]

TypeCheckerPopScope(T) ==
    IF T.scope_stack_ # <<>>
    THEN [T EXCEPT !.scope_stack_ = SubSeq(@, 1, Len(@) - 1)]
    ELSE T

\* "scope_stack_.back()[name] = type"
AddVariableType(T, name, type) ==
    IF T.scope_stack_ = <<>> THEN T
    ELSE [T EXCEPT !.scope_stack_[Len(T.scope_stack_)] =
             IF name \in DOMAIN @ THEN [@ EXCEPT ![name] = type] ELSE @ @@ (name :> type)]

RECURSIVE LookupVariableType(_, _, _)
\* The scopes depth, depth - 1, ..., 1 are searched for the name, the
\* innermost first; "" when none has it.
LookupVariableType(scope_stack_, name, depth) ==
    IF depth = 0 THEN ""
    ELSE IF name \in DOMAIN scope_stack_[depth] THEN scope_stack_[depth][name]
    ELSE LookupVariableType(scope_stack_, name, depth - 1)

RECURSIVE AddParameterTypes(_, _, _)
AddParameterTypes(T, params, i) ==
    IF i > Len(params) THEN T
    ELSE AddParameterTypes(IF params[i].type # NullOpt
                           THEN AddVariableType(T, params[i].name, get_type_name(params[i].type))
                           ELSE T,
                           params, i + 1)

\* The overload loops of check_expr: the return type of the first overload
\* with as many parameters as there are arguments and, for each argument
\* whose type is known, that type as parameter type; when there is none, the
\* return type of the first overload.
MatchingReturnType(overloads, arg_types) ==
    LET matches == {m \in 1..Len(overloads) :
                       /\ Len(overloads[m].param_types) = Len(arg_types)
                       /\ \A k \in 1..Len(arg_types) :
                              arg_types[k] = "" \/ overloads[m].param_types[k] = arg_types[k]}
    IN  IF matches # {}
        THEN overloads[CHOOSE m \in matches : \A k \in matches : m <= k].return_type
        ELSE overloads[1].return_type

Signatures(ops) == [i \in 1..Len(ops) |-> ops[i].signature]

\* What check_expr returns: the type stored in the node.
TypeOf(expr) == IF expr = Null THEN "" ELSE expr.inferred_type

\* "expr->inferred_type = type"
Inferred(expr, type, errors_) ==
    [expr |-> [expr EXCEPT !.inferred_type = type], errors_ |-> errors_]

RECURSIVE CheckExpr(_, _, _, _)
RECURSIVE CheckArgs(_, _, _, _, _)

\* The loop over call->args.
CheckArgs(args, done, T, symbols_, errors_) ==
    IF Len(done) = Len(args) THEN [args |-> done, errors_ |-> errors_]
    ELSE With(CheckExpr(args[Len(done) + 1], T, symbols_, errors_),
              LAMBDA a : CheckArgs(args, Append(done, a.expr), T, symbols_, a.errors_))

CheckExpr(expr, T, symbols_, errors_) ==
    IF expr = Null THEN [expr |-> expr, errors_ |-> errors_]
    ELSE IF expr.inferred_type # "" THEN [expr |-> expr, errors_ |-> errors_]
    ELSE IF expr.kind = "IntLiteral" THEN Inferred(expr, "i32", errors_)
    ELSE IF expr.kind = "FloatLiteral" THEN Inferred(expr, "f64", errors_)
    ELSE IF expr.kind = "StringLiteral" THEN Inferred(expr, "string", errors_)
    ELSE IF expr.kind = "BoolLiteral" THEN Inferred(expr, "bool", errors_)
    ELSE IF expr.kind = "Identifier"
    THEN Inferred(expr, LookupVariableType(T.scope_stack_, expr.name, Len(T.scope_stack_)),
                  errors_)
    ELSE IF expr.kind = "Binary"
    THEN With(CheckExpr(expr.left, T, symbols_, errors_), LAMBDA l :
         With(CheckExpr(expr.right, T, symbols_, l.errors_), LAMBDA r :
         With(FindOperators(symbols_, expr.op, "Infix"), LAMBDA ops :
            IF ops = <<>>
            THEN Inferred([expr EXCEPT !.left = l.expr, !.right = r.expr], "",
                          TypeError(r.errors_, "No infix operator found", expr.loc))
            ELSE Inferred([expr EXCEPT !.left = l.expr, !.right = r.expr],
                          MatchingReturnType(Signatures(ops), <<TypeOf(l.expr), TypeOf(r.expr)>>),
                          r.errors_))))
    ELSE IF expr.kind = "Unary"
    THEN With(CheckExpr(expr.operand, T, symbols_, errors_), LAMBDA o :
         With(FindOperators(symbols_, expr.op, expr.position), LAMBDA ops :
            IF ops = <<>>
            THEN Inferred([expr EXCEPT !.operand = o.expr], "",
                          TypeError(o.errors_, "No prefix or postfix operator found", expr.loc))
            ELSE Inferred([expr EXCEPT !.operand = o.expr],
                          MatchingReturnType(Signatures(ops), <<TypeOf(o.expr)>>),
                          o.errors_)))
    ELSE IF expr.kind = "Call"
    THEN With(CheckArgs(expr.args, <<>>, T, symbols_, errors_), LAMBDA a :
            IF expr.callee.kind # "Identifier"
            THEN Inferred([expr EXCEPT !.args = a.args], "",
                          TypeError(a.errors_, "Function call callee must be an identifier",
                                    expr.loc))
            ELSE IF FindFunctions(symbols_, expr.callee.name) = <<>>
            THEN Inferred([expr EXCEPT !.args = a.args], "",
                          TypeError(a.errors_, "Unknown function", expr.loc))
            ELSE Inferred([expr EXCEPT !.args = a.args],
                          MatchingReturnType(FindFunctions(symbols_, expr.callee.name),
                                             [k \in 1..Len(a.args) |-> TypeOf(a.args[k])]),
                          a.errors_))
    ELSE Inferred(expr, "",
                  TypeError(errors_, "OperatorSeq should have been resolved before type checking",
                            expr.loc))

\* The test of an if or while condition: its type, when known, is bool.
ConditionChecked(T, c, message) ==
    [T EXCEPT !.errors_ = IF TypeOf(c.expr) # "" /\ TypeOf(c.expr) # "bool"
                          THEN TypeError(c.errors_, message, c.expr.loc)
                          ELSE c.errors_]

RECURSIVE CheckStmt(_, _, _)
RECURSIVE CheckStmts(_, _, _, _)

\* check_stmt over a statement list, in order.
CheckStmts(list, done, T, symbols_) ==
    IF Len(done) = Len(list) THEN [stmts |-> done, T |-> T]
    ELSE With(CheckStmt(list[Len(done) + 1], T, symbols_),
              LAMBDA r : CheckStmts(list, Append(done, r.stmt), r.T, symbols_))

CheckStmt(stmt, T, symbols_) ==
    IF stmt = Null THEN [stmt |-> stmt, T |-> T]
    ELSE IF stmt.kind = "Let"
    THEN IF stmt.init = Null THEN [stmt |-> stmt, T |-> T]
         ELSE With(CheckExpr(stmt.init, T, symbols_, T.errors_), LAMBDA i :
            IF stmt.type # NullOpt
            THEN [stmt |-> [stmt EXCEPT !.init = i.expr],
                  T |-> AddVariableType(
                           [T EXCEPT !.errors_ =
                               IF TypeOf(i.expr) # "" /\ TypeOf(i.expr) # get_type_name(stmt.type)
                               THEN TypeError(i.errors_, "Type mismatch", i.expr.loc)
                               ELSE i.errors_],
                           stmt.name, get_type_name(stmt.type))]
            ELSE [stmt |-> [stmt EXCEPT !.init = i.expr],
                  T |-> IF TypeOf(i.expr) # ""
                        THEN AddVariableType([T EXCEPT !.errors_ = i.errors_], stmt.name,
                                             TypeOf(i.expr))
                        ELSE [T EXCEPT !.errors_ = i.errors_]])
    ELSE IF stmt.kind = "Func"
    THEN IF stmt.body = NullOpt THEN [stmt |-> stmt, T |-> T]
         ELSE With(CheckStmt(stmt.body,
                             AddParameterTypes(TypeCheckerPushScope(T), stmt.params, 1),
                             symbols_),
                   LAMBDA b : [stmt |-> [stmt EXCEPT !.body = b.stmt],
                               T |-> TypeCheckerPopScope(b.T)])
    ELSE IF stmt.kind = "Return"
    THEN IF stmt.value = NullOpt THEN [stmt |-> stmt, T |-> T]
         ELSE With(CheckExpr(stmt.value, T, symbols_, T.errors_),
                   LAMBDA v : [stmt |-> [stmt EXCEPT !.value = v.expr],
                               T |-> [T EXCEPT !.errors_ = v.errors_]])
    ELSE IF stmt.kind = "Expr"
    THEN With(CheckExpr(stmt.expr, T, symbols_, T.errors_),
              LAMBDA e : [stmt |-> [stmt EXCEPT !.expr = e.expr],
                          T |-> [T EXCEPT !.errors_ = e.errors_]])
    ELSE IF stmt.kind = "Block"
    THEN With(CheckStmts(stmt.stmts, <<>>, TypeCheckerPushScope(T), symbols_),
              LAMBDA b : [stmt |-> [stmt EXCEPT !.stmts = b.stmts],
                          T |-> TypeCheckerPopScope(b.T)])
    ELSE IF stmt.kind = "If"
    THEN With(CheckExpr(stmt.condition, T, symbols_, T.errors_), LAMBDA c :
         With(CheckStmt(stmt.then_branch,
                        ConditionChecked(T, c, "If condition must be 'bool'"), symbols_),
              LAMBDA t :
            IF stmt.else_branch = NullOpt
            THEN [stmt |-> [stmt EXCEPT !.condition = c.expr, !.then_branch = t.stmt],
                  T |-> t.T]
            ELSE With(CheckStmt(stmt.else_branch, t.T, symbols_), LAMBDA e :
                    [stmt |-> [stmt EXCEPT !.condition = c.expr, !.then_branch = t.stmt,
                                           !.else_branch = e.stmt],
                     T |-> e.T])))
    ELSE IF stmt.kind = "While"
    THEN With(CheckExpr(stmt.condition, T, symbols_, T.errors_), LAMBDA c :
         With(CheckStmt(stmt.body,
                        ConditionChecked(T, c, "While condition must be 'bool'"), symbols_),
              LAMBDA b : [stmt |-> [stmt EXCEPT !.condition = c.expr, !.body = b.stmt],
                          T |-> b.T]))
    ELSE [stmt |-> stmt, T |-> T]

\* TypeChecker::check: the statements with their annotations and the errors.
TypeCheckerCheck(list, symbols_) ==
    With(CheckStmts(list, <<>>, TypeChecker, symbols_),
         LAMBDA r : [stmts |-> r.stmts, errors_ |-> r.T.errors_])

-----------------------------------------------------------------------------
(* Code generator: src/src/codegen.cpp, over the LLVM module it builds *)

\* get_llvm_type: the LLVM type of a type name, "" for nullptr.
get_llvm_type(type_name) ==
    IF type_name = "i32" THEN "i32"
    ELSE IF type_name = "f64" THEN "double"
    ELSE IF type_name = "bool" THEN "i1"
    ELSE IF type_name = "string" THEN "i8*"
    ELSE IF type_name = "void" THEN "void"
    ELSE ""

isIntegerTy(type) == type \in {"i32", "i1"}
isDoubleTy(type) == type = "double"

\* "if isIntegerTy(32) i32, else if isDoubleTy() f64, else if isIntegerTy(1) bool"
PeccoTypeOf(value) ==
    IF value.type = "i32" THEN "i32"
    ELSE IF value.type = "double" THEN "f64"
    ELSE IF value.type = "i1" THEN "bool"
    ELSE ""

\* llvm::Value: a constant, an argument of a function, or the result of the
\* instruction at position idx of block bb of function fn.
Constant(type, value) == [kind |-> "Constant", type |-> type, value |-> value]
Argument(type, fn, n) == [kind |-> "Argument", type |-> type, fn |-> fn, n |-> n]
InstructionValue(type, fn, bb, idx) ==
    [kind |-> "Instruction", type |-> type, fn |-> fn, bb |-> bb, idx |-> idx]

\* llvm::Instruction: allocated is the type an alloca reserves, callee the
\* function a call calls, targets the blocks a br jumps to.
Instruction(opcode, type, operands) ==
    [opcode |-> opcode, type |-> type, operands |-> operands,
     allocated |-> "", callee |-> 0, targets |-> <<>>]

isTerminator(inst) == inst.opcode \in {"ret", "br"}

\* BasicBlock::getTerminator is the last instruction when that is a
\* terminator, and null otherwise.
HasTerminator(block) == block.insts # <<>> /\ isTerminator(block.insts[Len(block.insts)])

\* CodeGen::CodeGen and the clears at the head of generate.  insert is the
\* builder's insert block; LastUnique the counter LLVM renames symbols with;
\* malformed records that an instruction was built from operands whose
\* types LLVM requires to agree; thrown that an exception left the generator.
CodeGen ==
    [module_ |-> <<>>, functions_ |-> EmptyMap, value_stack_ |-> <<>>,
     current_function_ |-> 0, insert |-> [fn |-> 0, bb |-> 0], errors_ |-> <<>>,
     LastUnique |-> 0, malformed |-> FALSE, thrown |-> FALSE]

CodeGenPushScope(G) == [G EXCEPT !.value_stack_ = Append(@, EmptyMap)]

\* A pop_scope that leaves the scope of the block on the stack.
CodeGenKeepScope(G) == G

CodeGenPopScope(G) ==
    IF G.value_stack_ # <<>>
    THEN [G EXCEPT !.value_stack_ = SubSeq(@, 1, Len(@) - 1)]
    ELSE G

\* "value_stack_.back()[name] = value"
CodeGenAddVariable(G, name, value) ==
    IF G.value_stack_ = <<>> THEN G
    ELSE [G EXCEPT !.value_stack_[Len(G.value_stack_)] =
             IF name \in DOMAIN @ THEN [@ EXCEPT ![name] = value] ELSE @ @@ (name :> value)]

RECURSIVE LookupVariable(_, _, _)
\* The scopes depth, depth - 1, ..., 1 are searched, the innermost first.
LookupVariable(value_stack_, name, depth) ==
    IF depth = 0 THEN Null
    ELSE IF name \in DOMAIN value_stack_[depth] THEN value_stack_[depth][name]
    ELSE LookupVariable(value_stack_, name, depth - 1)

CodeGenError(G, message, loc) ==
    [G EXCEPT !.errors_ = Append(@, [message |-> message, line |-> loc.line,
                                     column |-> loc.column])]

\* "functions_[name]": null (0) when the map has no such key.
FunctionsAt(G, name) == IF name \in DOMAIN G.functions_ THEN G.functions_[name] ELSE 0

\* Module::getFunction: the function whose symbol is exactly name, or null.
GetFunction(module, name) ==
    IF \E f \in 1..Len(module) : module[f].name = name
    THEN CHOOSE f \in 1..Len(module) : module[f].name = name
    ELSE 0

\* llvm::Function::Create in the module: a symbol that is taken already is
\* made unique with ".N" from the module's counter.  The new function is the
\* last of the module.
FunctionCreate(G, name, param_types, return_type) ==
    LET taken == GetFunction(G.module_, name) # 0
        symbol == IF taken THEN name \o <<".", ToString(G.LastUnique + 1)>> ELSE name
    IN  [G EXCEPT !.module_ = Append(@, [name |-> symbol, param_types |-> param_types,
                                         return_type |-> return_type, blocks |-> <<>>]),
                  !.LastUnique = IF taken THEN @ + 1 ELSE @]

\* llvm::BasicBlock::Create(context_, label, func): the new block is the
\* last of the function.
BasicBlockCreate(G, label, fn) ==
    [G EXCEPT !.module_[fn].blocks = Append(@, [label |-> label, insts |-> <<>>])]

NextBlock(G, fn) == Len(G.module_[fn].blocks) + 1

SetInsertPoint(G, fn, bb) == [G EXCEPT !.insert = [fn |-> fn, bb |-> bb]]

GetInsertBlock(G) == G.module_[G.insert.fn].blocks[G.insert.bb]

Produced(value, G) == [value |-> value, G |-> G]

\* The builder appends the instruction to its insert block, whatever
\* the block holds already.
Insert(G, inst) ==
    Produced(InstructionValue(inst.type, G.insert.fn, G.insert.bb,
                              Len(GetInsertBlock(G).insts) + 1),
             [G EXCEPT !.module_[G.insert.fn].blocks[G.insert.bb].insts = Append(@, inst)])

CreateAlloca(G, type) == Insert(G, [Instruction("alloca", "ptr", <<>>) EXCEPT !.allocated = type])
CreateStore(G, value, ptr) == Insert(G, Instruction("store", "void", <<value, ptr>>)).G
CreateLoad(G, type, ptr) == Insert(G, Instruction("load", type, <<ptr>>))
CreateRet(G, value) == Insert(G, Instruction("ret", "void", <<value>>)).G
CreateRetVoid(G) == Insert(G, Instruction("ret", "void", <<>>)).G
CreateBr(G, dest) == Insert(G, [Instruction("br", "void", <<>>) EXCEPT !.targets = <<dest>>]).G
CreateCondBr(G, cond, then_bb, else_bb) ==
    Insert([G EXCEPT !.malformed = @ \/ cond.type # "i1"],
           [Instruction("br", "void", <<cond>>) EXCEPT !.targets = <<then_bb, else_bb>>]).G

CreateCall(G, callee, args) ==
    Insert([G EXCEPT !.malformed =
               @ \/ [k \in 1..Len(args) |-> args[k].type] # G.module_[callee].param_types],
           [Instruction("call", G.module_[callee].return_type, args) EXCEPT !.callee = callee])

\* CreateAdd, CreateSub, CreateAnd, CreateICmpEQ, ...: the builder's folder
\* yields a constant when both operands are constants and appends an
\* instruction otherwise.
CreateBinOp(G, opcode, type, left, right) ==
    IF left.kind = "Constant" /\ right.kind = "Constant"
    THEN Produced(Constant(type, <<opcode>> \o left.value \o right.value),
                  [G EXCEPT !.malformed = @ \/ left.type # right.type])
    ELSE Insert([G EXCEPT !.malformed = @ \/ left.type # right.type],
                Instruction(opcode, type, <<left, right>>))

\* CreateNeg is "sub 0, v" and CreateNot is "xor v, -1".
CreateNeg(G, opcode, value) == CreateBinOp(G, opcode, value.type, Constant(value.type, <<"0">>), value)
CreateNot(G, value) == CreateBinOp(G, "xor", value.type, value, Constant(value.type, <<"-1">>))

\* "llvm::APInt(32, val, true)": the low 32 bits of the value.
APInt32(digits) ==
    IF Exceeds(digits, IntMax) THEN <<"low32">> \o Significant(digits) ELSE Significant(digits)

\* "llvm::cast<llvm::AllocaInst>(var)->getAllocatedType()"
AllocatedType(G, var) == G.module_[var.fn].blocks[var.bb].insts[var.idx].allocated

\* gen_int_literal
GenIntLiteral(lit, G) ==
    IF StollThrows(lit.value) THEN Produced(Null, [G EXCEPT !.thrown = TRUE])
    ELSE Produced(Constant("i32", APInt32(lit.value)), G)

\* gen_identifier
GenIdentifier(ident, G) ==
    IF LookupVariable(G.value_stack_, ident.name, Len(G.value_stack_)) = Null
    THEN Produced(Null, CodeGenError(G, "Undefined variable", ident.loc))
    ELSE CreateLoad(G, AllocatedType(G, LookupVariable(G.value_stack_, ident.name,
                                                       Len(G.value_stack_))),
                    LookupVariable(G.value_stack_, ident.name, Len(G.value_stack_)))

\* The operators gen_binary_expr lowers itself when the left operand is an
\* integer or a double, with the opcode for each.
IntegerOps ==
    [op \in {"+", "-", "*", "/", "%", "&", "|", "^", "<<", ">>"} |->
        CASE op = "+" -> "add" [] op = "-" -> "sub" [] op = "*" -> "mul" [] op = "/" -> "sdiv"
          [] op = "%" -> "srem" [] op = "&" -> "and" [] op = "|" -> "or" [] op = "^" -> "xor"
          [] op = "<<" -> "shl" [] op = ">>" -> "ashr"]
DoubleOps ==
    [op \in {"+", "-", "*", "/"} |->
        CASE op = "+" -> "fadd" [] op = "-" -> "fsub" [] op = "*" -> "fmul" [] op = "/" -> "fdiv"]
Comparisons == {"==", "!=", "<", "<=", ">", ">="}
Assignments == {"=", "+=", "-=", "*=", "/=", "%="}

\* The first overload with these parameter types whose mangled name is a
\* symbol of the module, as the loops over ops find it; 0 when there is none.
MangledName(op, types) ==
    <<op>> \o [i \in 1..(2 * Len(types)) |-> IF i % 2 = 1 THEN "$" ELSE types[i \div 2]]

OperatorFunction(G, ops, op, types) ==
    IF \E i \in 1..Len(ops) : ops[i].signature.param_types = types
    THEN GetFunction(G.module_, MangledName(op, types))
    ELSE 0

\* The tail of gen_binary_expr and gen_unary_expr: a call of the
\* user-defined operator, or the error "Unknown operator".
GenOperatorCall(expr, position, args, G, symbols_) ==
    IF OperatorFunction(G, FindOperators(symbols_, expr.op, position), expr.op,
                        [k \in 1..Len(args) |-> PeccoTypeOf(args[k])]) # 0
    THEN CreateCall(G, OperatorFunction(G, FindOperators(symbols_, expr.op, position), expr.op,
                                        [k \in 1..Len(args) |-> PeccoTypeOf(args[k])]),
                    args)
    ELSE Produced(Null, CodeGenError(G, "Unknown operator", expr.loc))

\* The opcode of a compound assignment for an integer and for a double
\* variable; "%=" leaves the right operand as it is for a double.
CompoundInteger ==
    [op \in Assignments \ {"="} |->
        CASE op = "+=" -> "add" [] op = "-=" -> "sub" [] op = "*=" -> "mul"
          [] op = "/=" -> "sdiv" [] op = "%=" -> "srem"]
CompoundDouble ==
    [op \in {"+=", "-=", "*=", "/="} |->
        CASE op = "+=" -> "fadd" [] op = "-=" -> "fsub" [] op = "*=" -> "fmul"
          [] op = "/=" -> "fdiv"]

\* The assignment branch of gen_binary_expr once the right operand has been
\* evaluated: a compound assignment loads the variable and combines it with
\* the right operand; the new value is stored and is the expression's value.
GenAssignment(binary, var, right_val, G) ==
    IF right_val = Null THEN Produced(Null, G)
    ELSE IF binary.op = "=" THEN Produced(right_val, CreateStore(G, right_val, var))
    ELSE With(CreateLoad(G, AllocatedType(G, var), var), LAMBDA left :
         With(IF isIntegerTy(left.value.type)
              THEN CreateBinOp(left.G, CompoundInteger[binary.op], left.value.type,
                               left.value, right_val)
              ELSE IF isDoubleTy(left.value.type) /\ binary.op \in DOMAIN CompoundDouble
              THEN CreateBinOp(left.G, CompoundDouble[binary.op], left.value.type,
                               left.value, right_val)
              ELSE Produced(right_val, left.G),
              LAMBDA new : Produced(new.value, CreateStore(new.G, new.value, var))))

\* "Intrinsic::getDeclaration(module, Intrinsic::pow, {double})" and the call.
GenPow(left, right, G) ==
    With(IF GetFunction(G.module_, <<"llvm.pow.f64">>) = 0
         THEN FunctionCreate(G, <<"llvm.pow.f64">>, <<"double", "double">>, "double")
         ELSE G,
         LAMBDA G1 : CreateCall(G1, GetFunction(G1.module_, <<"llvm.pow.f64">>), <<left, right>>))

\* gen_binary_expr once both operands have been evaluated in G.
GenBinaryOp(binary, left, right, G, symbols_) ==
    IF left = Null \/ right = Null THEN Produced(Null, G)
    ELSE IF binary.op \in DOMAIN IntegerOps /\ isIntegerTy(left.type)
    THEN CreateBinOp(G, IntegerOps[binary.op], left.type, left, right)
    ELSE IF binary.op \in DOMAIN DoubleOps /\ isDoubleTy(left.type)
    THEN CreateBinOp(G, DoubleOps[binary.op], left.type, left, right)
    ELSE IF binary.op \in Comparisons /\ isIntegerTy(left.type)
    THEN CreateBinOp(G, "icmp", "i1", left, right)
    ELSE IF binary.op \in Comparisons /\ isDoubleTy(left.type)
    THEN CreateBinOp(G, "fcmp", "i1", left, right)
    ELSE IF binary.op = "**" /\ isDoubleTy(left.type) /\ isDoubleTy(right.type)
    THEN GenPow(left, right, G)
    ELSE IF binary.op = "&&" THEN CreateBinOp(G, "and", left.type, left, right)
    ELSE IF binary.op = "||" THEN CreateBinOp(G, "or", left.type, left, right)
    ELSE GenOperatorCall(binary, "Infix", <<left, right>>, G, symbols_)

\* gen_unary_expr once the operand has been evaluated in G.
GenUnaryOp(unary, operand, G, symbols_) ==
    IF operand = Null THEN Produced(Null, G)
    ELSE IF unary.position = "Prefix" /\ unary.op = "-" /\ isIntegerTy(operand.type)
    THEN CreateNeg(G, "sub", operand)
    ELSE IF unary.position = "Prefix" /\ unary.op = "-" /\ isDoubleTy(operand.type)
    THEN CreateNeg(G, "fsub", operand)
    ELSE IF unary.position = "Prefix" /\ unary.op = "!" THEN CreateNot(G, operand)
    ELSE GenOperatorCall(unary, unary.position, <<operand>>, G, symbols_)

RECURSIVE GenExpr(_, _, _)
RECURSIVE GenArgs(_, _, _, _)

\* The loop over call->args of gen_call_expr: it stops at the first
\* argument without a value.
GenArgs(args, values, G, symbols_) ==
    IF Len(values) = Len(args) THEN [ok |-> TRUE, values |-> values, G |-> G]
    ELSE With(GenExpr(args[Len(values) + 1], G, symbols_), LAMBDA a :
            IF a.value = Null THEN [ok |-> FALSE, values |-> values, G |-> a.G]
            ELSE GenArgs(args, Append(values, a.value), a.G, symbols_))

\* gen_call_expr once the callee has been looked up.
GenCall(call, callee, G, symbols_) ==
    IF callee = 0 THEN Produced(Null, CodeGenError(G, "Unknown function", call.loc))
    ELSE IF Len(G.module_[callee].param_types) # Len(call.args)
    THEN Produced(Null, CodeGenError(G, "Incorrect number of arguments", call.loc))
    ELSE With(GenArgs(call.args, <<>>, G, symbols_), LAMBDA a :
            IF ~a.ok THEN Produced(Null, a.G) ELSE CreateCall(a.G, callee, a.values))

\* gen_expr with gen_binary_expr, gen_unary_expr and gen_call_expr: the
\* value of the expression (Null for nullptr) and the generator after it.
GenExpr(expr, G, symbols_) ==
    IF expr = Null THEN Produced(Null, G)
    ELSE IF expr.kind = "IntLiteral" THEN GenIntLiteral(expr, G)
    ELSE IF expr.kind = "FloatLiteral" THEN Produced(Constant("double", expr.value), G)
    ELSE IF expr.kind = "StringLiteral" THEN Produced(Constant("i8*", <<expr.value>>), G)
    ELSE IF expr.kind = "BoolLiteral"
    THEN Produced(Constant("i1", IF expr.value THEN <<"1">> ELSE <<"0">>), G)
    ELSE IF expr.kind = "Identifier" THEN GenIdentifier(expr, G)
    ELSE IF expr.kind = "Binary"
    THEN IF expr.op \in Assignments
         THEN IF expr.left.kind # "Identifier"
              THEN Produced(Null, CodeGenError(G, "Left side of assignment must be a variable",
                                               expr.loc))
              ELSE IF LookupVariable(G.value_stack_, expr.left.name, Len(G.value_stack_)) = Null
              THEN Produced(Null, CodeGenError(G, "Undefined variable", expr.loc))
              ELSE With(GenExpr(expr.right, G, symbols_), LAMBDA r :
                      GenAssignment(expr, LookupVariable(G.value_stack_, expr.left.name,
                                                         Len(G.value_stack_)),
                                    r.value, r.G))
         ELSE With(GenExpr(expr.left, G, symbols_), LAMBDA l :
              With(GenExpr(expr.right, l.G, symbols_), LAMBDA r :
                 GenBinaryOp(expr, l.value, r.value, r.G, symbols_)))
    ELSE IF expr.kind = "Unary"
    THEN With(GenExpr(expr.operand, G, symbols_), LAMBDA o :
            GenUnaryOp(expr, o.value, o.G, symbols_))
    ELSE IF expr.kind = "Call"
    THEN IF expr.callee.kind # "Identifier"
         THEN Produced(Null, CodeGenError(G, "Function call callee must be an identifier",
                                          expr.loc))
         ELSE GenCall(expr,
                      IF FunctionsAt(G, <<expr.callee.name>>) # 0
                      THEN FunctionsAt(G, <<expr.callee.name>>)
                      ELSE GetFunction(G.module_, <<expr.callee.name>>),
                      G, symbols_)
    ELSE Produced(Null, CodeGenError(G, "OperatorSeq should have been resolved before codegen",
                                     expr.loc))

\* The tail of gen_func_stmt and gen_operator_stmt: a block left without a
\* terminator gets "ret void", or the return of a zero of the return type.
DefaultReturn(G, return_type) ==
    IF HasTerminator(GetInsertBlock(G)) THEN G
    ELSE IF return_type = NullOpt THEN [G EXCEPT !.thrown = TRUE]
    ELSE IF get_type_name(return_type) = "void" THEN CreateRetVoid(G)
    ELSE IF isIntegerTy(get_llvm_type(get_type_name(return_type)))
    THEN CreateRet(G, Constant(get_llvm_type(get_type_name(return_type)), <<"0">>))
    ELSE IF isDoubleTy(get_llvm_type(get_type_name(return_type)))
    THEN CreateRet(G, Constant("double", <<"0.0">>))
    ELSE G

RECURSIVE StoreArguments(_, _, _, _)
\* "for (auto &arg : llvm_func->args())": an alloca for the argument, the
\* argument stored in it, and the variable params[idx] bound to the alloca.
StoreArguments(G, fn, params, idx) ==
    IF idx > Len(G.module_[fn].param_types) THEN G
    ELSE With(CreateAlloca(G, G.module_[fn].param_types[idx]), LAMBDA alloca :
            StoreArguments(
                CodeGenAddVariable(CreateStore(alloca.G,
                                        Argument(G.module_[fn].param_types[idx], fn, idx),
                                        alloca.value),
                            params[idx].name, alloca.value),
                fn, params, idx + 1))

RECURSIVE GenStmt(_, _, _)
RECURSIVE GenStmts(_, _, _, _)

\* gen_stmt over a statement list, in order.
GenStmts(list, i, G, symbols_) ==
    IF i > Len(list) THEN G
    ELSE GenStmts(list, i + 1, GenStmt(list[i], G, symbols_), symbols_)

\* gen_func_stmt and gen_operator_stmt past the lookup in functions_: the
\* body is generated into a new entry block of llvm_func, then the
\* function and the insert point are restored.
GenBody(decl, llvm_func, G, symbols_) ==
    With(GenStmt(IF decl.body # NullOpt THEN decl.body ELSE Null,
                 StoreArguments(
                     CodeGenPushScope(
                         SetInsertPoint(
                             [BasicBlockCreate(G, "entry", llvm_func)
                                 EXCEPT !.current_function_ = llvm_func],
                             llvm_func, NextBlock(G, llvm_func))),
                     llvm_func, decl.params, 1),
                 symbols_),
         LAMBDA B : [CodeGenPopScope(DefaultReturn(B, decl.return_type))
                        EXCEPT !.current_function_ = G.current_function_,
                               !.insert = G.insert])

\* gen_func_stmt
GenFuncStmt(func, G, symbols_) ==
    IF FunctionsAt(G, <<func.name>>) = 0
    THEN CodeGenError(G, "Function not found", func.loc)
    ELSE GenBody(func, FunctionsAt(G, <<func.name>>), G, symbols_)

\* The types of the parameters that have one.
AnnotatedTypes(params) ==
    SelectSeq(ParamTypes(params), LAMBDA t : t # "")

\* gen_operator_stmt
GenOperatorStmt(op_decl, G, symbols_) ==
    IF FunctionsAt(G, MangledName(op_decl.op, AnnotatedTypes(op_decl.params))) = 0
    THEN CodeGenError(G, "Operator function not found", op_decl.loc)
    ELSE GenBody(op_decl, FunctionsAt(G, MangledName(op_decl.op, AnnotatedTypes(op_decl.params))),
                 G, symbols_)

\* gen_let_stmt once the initializer has been evaluated.
GenLet(let, init_val, G) ==
    IF let.init # Null /\ init_val = Null THEN G
    ELSE With(IF let.type # NullOpt THEN get_llvm_type(get_type_name(let.type))
              ELSE IF init_val # Null THEN init_val.type ELSE "",
              LAMBDA var_type :
                 IF var_type = ""
                 THEN CodeGenError(G, "Cannot determine type for variable", let.loc)
                 ELSE With(CreateAlloca(G, var_type), LAMBDA alloca :
                         CodeGenAddVariable(IF init_val # Null
                                     THEN CreateStore(alloca.G, init_val, alloca.value)
                                     ELSE alloca.G,
                                     let.name, alloca.value)))

\* "if (!builder_.GetInsertBlock()->getTerminator()) builder_.CreateBr(dest)"
BranchIfOpen(G, dest) == IF HasTerminator(GetInsertBlock(G)) THEN G ELSE CreateBr(G, dest)

\* gen_if_stmt once the condition has a value: then is block n, ifcont
\* n + 1 and else, when there is one, n + 2 of the current function.
GenIf(if_stmt, cond, G, symbols_) ==
    With(G.current_function_, LAMBDA func :
    With(NextBlock(G, func), LAMBDA then_bb :
    With(IF if_stmt.else_branch # NullOpt
         THEN CreateCondBr(BasicBlockCreate(BasicBlockCreate(BasicBlockCreate(G, "then", func),
                                                             "ifcont", func),
                                            "else", func),
                           cond, then_bb, then_bb + 2)
         ELSE CreateCondBr(BasicBlockCreate(BasicBlockCreate(G, "then", func), "ifcont", func),
                           cond, then_bb, then_bb + 1),
         LAMBDA G1 :
    With(BranchIfOpen(GenStmt(if_stmt.then_branch, SetInsertPoint(G1, func, then_bb), symbols_),
                      then_bb + 1),
         LAMBDA G2 :
            IF if_stmt.else_branch # NullOpt
            THEN SetInsertPoint(
                     BranchIfOpen(GenStmt(if_stmt.else_branch,
                                          SetInsertPoint(G2, func, then_bb + 2), symbols_),
                                  then_bb + 1),
                     func, then_bb + 1)
            ELSE SetInsertPoint(G2, func, then_bb + 1)))))

\* gen_while_stmt: loop.cond is block n, loop.body n + 1 and loop.end
\* n + 2 of the current function.
GenWhile(while_stmt, G, symbols_) ==
    With(G.current_function_, LAMBDA func :
    With(NextBlock(G, func), LAMBDA loop_cond :
    With(GenExpr(while_stmt.condition,
                 SetInsertPoint(
                     CreateBr(BasicBlockCreate(BasicBlockCreate(BasicBlockCreate(
                                  G, "loop.cond", func), "loop.body", func), "loop.end", func),
                              loop_cond),
                     func, loop_cond),
                 symbols_),
         LAMBDA c :
            IF c.value = Null THEN c.G
            ELSE SetInsertPoint(
                     BranchIfOpen(
                         GenStmt(while_stmt.body,
                                 SetInsertPoint(CreateCondBr(c.G, c.value, loop_cond + 1,
                                                             loop_cond + 2),
                                                func, loop_cond + 1),
                                 symbols_),
                         loop_cond),
                     func, loop_cond + 2))))

\* gen_stmt with gen_let_stmt, gen_return_stmt, gen_expr_stmt,
\* gen_block_stmt, gen_if_stmt and gen_while_stmt.
GenStmt(stmt, G, symbols_) ==
    IF stmt = Null THEN G
    ELSE IF stmt.kind = "Let"
    THEN With(GenExpr(stmt.init, G, symbols_), LAMBDA i : GenLet(stmt, i.value, i.G))
    ELSE IF stmt.kind = "Return"
    THEN IF stmt.value = NullOpt THEN CreateRetVoid(G)
         ELSE With(GenExpr(stmt.value, G, symbols_), LAMBDA v :
                 IF v.value # Null THEN CreateRet(v.G, v.value) ELSE v.G)
    ELSE IF stmt.kind = "Expr" THEN GenExpr(stmt.expr, G, symbols_).G
    ELSE IF stmt.kind = "Block"
    THEN CodeGenPopScope(GenStmts(stmt.stmts, 1, CodeGenPushScope(G), symbols_))
    ELSE IF stmt.kind = "If"
    THEN With(GenExpr(stmt.condition, G, symbols_), LAMBDA c :
            IF c.value = Null THEN c.G ELSE GenIf(stmt, c.value, c.G, symbols_))
    ELSE IF stmt.kind = "While" THEN GenWhile(stmt, G, symbols_)
    ELSE G

\* The strings of the programs below in the order of std::string's
\* operator<, the order std::map iterates its keys in.
StringOrder ==
    << "!", "&&", "*<", "*>", "++", "+<", "+>", "-", "<>", "?<", "?>", "^<", "^>",
       "f", "g", "t", "write", "||", "~" >>

StringRank(s) == CHOOSE i \in 1..Len(StringOrder) : StringOrder[i] = s

\* enum class OpPosition { Prefix, Infix, Postfix }
PositionRank(position) ==
    IF position = "Prefix" THEN 0 ELSE IF position = "Infix" THEN 1 ELSE 2

KeyRank(key) == 3 * StringRank(key[1]) + PositionRank(key[2])

RECURSIVE Ascending(_)
Ascending(ranks) ==
    IF ranks = {} THEN <<>>
    ELSE LET least == CHOOSE r \in ranks : \A other \in ranks : r <= other
         IN  <<least>> \o Ascending(ranks \ {least})

RECURSIVE Concatenated(_, _)
Concatenated(lists, i) ==
    IF i > Len(lists) THEN <<>> ELSE lists[i] \o Concatenated(lists, i + 1)

\* The declarations generate makes: for each function name, in the order
\* of get_all_function_names, every overload under the name itself; then
\* for each operator, in the order of get_all_operators, the operator
\* under "op$type1$type2...".
FunctionDeclarations(table) ==
    LET ranks == Ascending({StringRank(name) : name \in DOMAIN table.functions})
    IN  Concatenated([i \in 1..Len(ranks) |->
                        [k \in 1..Len(table.functions[StringOrder[ranks[i]]]) |->
                            [name |-> <<StringOrder[ranks[i]]>>,
                             param_types |-> table.functions[StringOrder[ranks[i]]][k].param_types,
                             return_type |-> table.functions[StringOrder[ranks[i]]][k].return_type]]],
                     1)

\* SymbolTable::get_all_operators: the overloads of every key of the
\* operator map, the keys in the order of the map.
AllOperators(table) ==
    LET ranks == Ascending({KeyRank(key) : key \in DOMAIN table.operators})
    IN  Concatenated([i \in 1..Len(ranks) |->
                        table.operators[CHOOSE key \in DOMAIN table.operators :
                                           KeyRank(key) = ranks[i]]],
                     1)

RECURSIVE Mangled(_, _)
\* The declaration of each operator under "op$type1$type2...".
Mangled(ops, k) ==
    IF k > Len(ops) THEN <<>>
    ELSE << [name |-> MangledName(ops[k].op, ops[k].signature.param_types),
             param_types |-> ops[k].signature.param_types,
             return_type |-> ops[k].signature.return_type] >> \o Mangled(ops, k + 1)

OperatorDeclarations(table) == Mangled(AllOperators(table), 1)

RECURSIVE Declare(_, _, _)
\* The two declaration loops of generate; an unknown type is an error and
\* ends generate.
Declare(G, declarations, i) ==
    IF i > Len(declarations) THEN G
    ELSE IF \E k \in 1..Len(declarations[i].param_types) :
               get_llvm_type(declarations[i].param_types[k]) = ""
    THEN CodeGenError(G, "Unknown type", SourceLocation(0, 0))
    ELSE IF get_llvm_type(declarations[i].return_type) = ""
    THEN CodeGenError(G, "Unknown return type", SourceLocation(0, 0))
    ELSE Declare([FunctionCreate(G, declarations[i].name,
                                 [k \in 1..Len(declarations[i].param_types) |->
                                     get_llvm_type(declarations[i].param_types[k])],
                                 get_llvm_type(declarations[i].return_type))
                     EXCEPT !.functions_ =
                         IF declarations[i].name \in DOMAIN @
                         THEN [@ EXCEPT ![declarations[i].name] = Len(G.module_) + 1]
                         ELSE @ @@ (declarations[i].name :> Len(G.module_) + 1)],
                 declarations, i + 1)

RECURSIVE GenTopLevel(_, _, _, _)
\* "for (auto &stmt : stmts)" of generate: a function or operator with a
\* body gets its own function, any other statement goes to the entry function.
GenTopLevel(list, i, G, symbols_) ==
    IF i > Len(list) THEN G
    ELSE GenTopLevel(list, i + 1,
                     IF list[i].kind = "Func"
                     THEN IF list[i].body # NullOpt THEN GenFuncStmt(list[i], G, symbols_) ELSE G
                     ELSE IF list[i].kind = "OperatorDecl"
                     THEN IF list[i].body # NullOpt THEN GenOperatorStmt(list[i], G, symbols_)
                          ELSE G
                     ELSE GenStmt(list[i], G, symbols_),
                     symbols_)

\* The value's type as the verifier sees it.
WellTyped(module, f, inst) ==
    IF inst.opcode = "ret"
    THEN IF inst.operands = <<>> THEN module[f].return_type = "void"
         ELSE inst.operands[1].type = module[f].return_type
    ELSE IF inst.opcode = "br" THEN inst.operands = <<>> \/ inst.operands[1].type = "i1"
    ELSE IF inst.opcode = "call"
    THEN [k \in 1..Len(inst.operands) |-> inst.operands[k].type] = module[inst.callee].param_types
    ELSE IF inst.opcode = "store" THEN TRUE
    ELSE IF Len(inst.operands) = 2 THEN inst.operands[1].type = inst.operands[2].type
    ELSE TRUE

\* llvm::verifyModule, true when the module is broken: a block of a function
\* is empty, does not end in a terminator or has a terminator before its
\* last instruction, or an instruction's operands have the wrong types.
verifyModule(module) ==
    \E f \in 1..Len(module) : \E b \in 1..Len(module[f].blocks) :
        LET insts == module[f].blocks[b].insts
        IN  \/ ~HasTerminator(module[f].blocks[b])
            \/ \E i \in 1..(Len(insts) - 1) : isTerminator(insts[i])
            \/ \E i \in 1..Len(insts) : ~WellTyped(module, f, insts[i])

\* The entry function "__pecco_entry" with its entry block, the insert point
\* in it and the global scope pushed.
EntryFunction(G) ==
    CodeGenPushScope(
        SetInsertPoint(
            [BasicBlockCreate(FunctionCreate(G, <<"__pecco_entry">>, <<>>, "i32"),
                              "entry", Len(G.module_) + 1)
                EXCEPT !.current_function_ = Len(G.module_) + 1],
            Len(G.module_) + 1, 1))

\* The top-level statements generated into the entry function and what
\* follows them in generate.
GenerateEntry(list, G, symbols_) ==
    With(GenTopLevel(list, 1, EntryFunction(G), symbols_),
         LAMBDA B :
    With(CodeGenPopScope(IF B.insert.fn = Len(G.module_) + 1 /\ ~HasTerminator(GetInsertBlock(B))
                         THEN CreateRet(B, Constant("i32", <<"0">>))
                         ELSE B),
         LAMBDA E :
            IF verifyModule(E.module_)
            THEN CodeGenError(E, "LLVM module verification failed", SourceLocation(0, 0))
            ELSE E))

\* CodeGen::generate; it returns !has_errors().
Generate(list, symbols_) ==
    With(Declare(CodeGen, FunctionDeclarations(symbols_) \o OperatorDeclarations(symbols_), 1),
         LAMBDA D : IF D.errors_ # <<>> THEN D ELSE GenerateEntry(list, D, symbols_))

-----------------------------------------------------------------------------
(* The prelude and the programs the driver is run on *)

i32 == Type("i32")
bool == Type("bool")

Params1(line) == <<Parameter("a", i32, SourceLocation(line, 1))>>
Params2(line) == <<Parameter("a", i32, SourceLocation(line, 1)),
                   Parameter("b", i32, SourceLocation(line, 2))>>

\* A declaration "operator infix op(a: i32, b: i32) : i32 prec p assoc;" on its own line.
InfixDecl(op, precedence, assoc, line) ==
    OperatorDeclStmt(op, "Infix", Params2(line), i32, precedence, assoc, NullOpt,
                     SourceLocation(line, 0))

\* A declaration "operator infix op(a: bool, b: bool) : bool prec p;".
LogicalDecl(op, precedence, line) ==
    OperatorDeclStmt(op, "Infix",
                     <<Parameter("a", bool, SourceLocation(line, 1)),
                       Parameter("b", bool, SourceLocation(line, 2))>>,
                     bool, precedence, "Left", NullOpt, SourceLocation(line, 0))

\* A declaration "operator prefix|postfix op(a: i32) : i32;": precedence 0, Left.
UnaryDecl(op, position, line) ==
    OperatorDeclStmt(op, position, Params1(line), i32, 0, "Left", NullOpt,
                     SourceLocation(line, 0))

\* The prelude's declarations that the programs below use.
Prelude ==
    << FuncStmt("write", <<Parameter("fd", i32, SourceLocation(1, 1))>>, i32, NullOpt,
                SourceLocation(1, 0)),
       InfixDecl("-", 70, "Left", 2),
       UnaryDecl("-", "Prefix", 3),
       OperatorDeclStmt("!", "Prefix", <<Parameter("a", bool, SourceLocation(4, 1))>>, bool,
                        0, "Left", NullOpt, SourceLocation(4, 0)),
       LogicalDecl("&&", 30, 5),
       LogicalDecl("||", 20, 6) >>

\* User declarations in the style of the resolver's tests: pairs of infix
\* operators that share a precedence and differ in associativity.
InfixDecls ==
    << InfixDecl("+<", 70, "Left", 1),    InfixDecl("+>", 70, "Right", 2),
       InfixDecl("*<", 80, "Left", 3),    InfixDecl("*>", 80, "Right", 4),
       InfixDecl("^<", 1000, "Left", 5),  InfixDecl("^>", 1000, "Right", 6),
       InfixDecl("?<", 1001, "Left", 7),  InfixDecl("?>", 1001, "Right", 8) >>

InfixSymbols == {InfixDecls[i].op : i \in 1..Len(InfixDecls)}

\* "++" declared both as a prefix and as a postfix operator.
UnaryDecls == << UnaryDecl("++", "Prefix", 1), UnaryDecl("++", "Postfix", 2) >>

UnarySymbols == {"x", "!", "++", "-"}

ExprSymbols == {"x", "-", "(", ")", ","}

SeqsUpTo(S, n) == UNION {[1..k -> S] : k \in 1..n}

\* The token of one lexeme; its column is its position on the line.  The
\* lexeme of a number is the sequence of its digits.
TokenOf(lexeme, line, column) ==
    IF lexeme \in {"x", "a", "t"} THEN Token("Identifier", lexeme, line, column)
    ELSE IF lexeme \in {"0", "1"} THEN Token("Integer", <<lexeme>>, line, column)
    ELSE IF lexeme \in {"true", "false"} THEN Token("Keyword", lexeme, line, column)
    ELSE IF lexeme \in {"(", ")", ",", ";", "{"} THEN Token("Punctuation", lexeme, line, column)
    ELSE Token("Operator", lexeme, line, column)

\* The tokens of an expression on one line, the punctuation that ends it
\* and the end of the file.
ExprTokens(lexemes, terminator, line) ==
    [i \in 1..(Len(lexemes) + 2) |->
        IF i <= Len(lexemes) THEN TokenOf(lexemes[i], line, i)
        ELSE IF i = Len(lexemes) + 1 THEN TokenOf(terminator, line, i)
        ELSE Token("EndOfFile", "", line, i)]

\* x op1 x op2 x ...
InfixChain(ops) == [i \in 1..(2 * Len(ops) + 1) |-> IF i % 2 = 1 THEN "x" ELSE ops[i \div 2]]

Templates == {"Let", "Expr", "Return", "If", "Else", "While", "Func", "OperatorDecl", "Block"}

Terminator(template) == IF template \in {"If", "While"} THEN "{" ELSE ";"

\* The statement the parser builds around an expression, by the place the
\* expression is written in.
StmtWith(template, expr, line) ==
    LET loc == SourceLocation(line, 0)
        empty == BlockStmt(<<>>, loc)
        one == BlockStmt(<<ExprStmt(expr, loc)>>, loc)
        ret == BlockStmt(<<ReturnStmt(expr, loc)>>, loc)
    IN  CASE template = "Let" -> LetStmt("result", NullOpt, expr, loc)
          [] template = "Expr" -> ExprStmt(expr, loc)
          [] template = "Return" -> ReturnStmt(expr, loc)
          [] template = "If" -> IfStmt(expr, empty, NullOpt, loc)
          [] template = "Else" ->
                IfStmt(IdentifierExpr("x", loc), empty,
                       IfStmt(expr, one, ret, loc), loc)
          [] template = "While" -> WhileStmt(expr, one, loc)
          [] template = "Func" -> FuncStmt("f", Params1(line), i32, ret, loc)
          [] template = "OperatorDecl" ->
                OperatorDeclStmt("~", "Prefix", Params1(line), i32, 0, "Left", ret, loc)
          [] template = "Block" -> BlockStmt(<<LetStmt("v", NullOpt, expr, loc)>>, loc)

\* The result of parsing one expression that stands alone before its
\* terminator: ok when the parser reported no error and stopped at the terminator.
LineOf(r, length) ==
    [ok |-> r.expr # Null /\ r.P.errors = <<>>
            /\ SkipComments(r.P.tokens, r.P.current) = length + 1,
     expr |-> r.expr]

ParseLine(lexemes, terminator, line) ==
    LineOf(ParseExpr(Parser(ExprTokens(lexemes, terminator, line))), Len(lexemes))

\* Declaration programs: the leaves are a let of "a", a let of "b", a
\* function declaration and an operator declaration; a compound statement
\* holds up to MaxBody of them.
LeafStmts ==
    { LetStmt("a", NullOpt, IdentifierExpr("x", SourceLocation(0, 0)), SourceLocation(0, 0)),
      LetStmt("b", NullOpt, IdentifierExpr("x", SourceLocation(0, 0)), SourceLocation(0, 0)),
      FuncStmt("g", <<>>, i32, NullOpt, SourceLocation(0, 0)),
      UnaryDecl("~", "Prefix", 0) }

Bodies == {BlockStmt(body, SourceLocation(0, 0)) : body \in {<<>>} \cup SeqsUpTo(LeafStmts, MaxBody)}

ParamLists ==
    LET a == Parameter("a", i32, SourceLocation(0, 0))
        b == Parameter("b", i32, SourceLocation(0, 0))
    IN  {<<>>, <<a>>, <<a, a>>, <<a, b>>}

CompoundStmts ==
    LET loc == SourceLocation(0, 0)
        x == IdentifierExpr("x", loc)
    IN  Bodies
        \cup {WhileStmt(x, body, loc) : body \in Bodies}
        \cup {IfStmt(x, body, NullOpt, loc) : body \in Bodies}
        \cup {IfStmt(x, BlockStmt(<<>>, loc), body, loc) : body \in Bodies}
        \cup {OperatorDeclStmt("~", "Prefix", <<Parameter("a", i32, loc)>>, i32, 0, "Left",
                               body, loc) : body \in Bodies}
        \cup {FuncStmt("f", params, i32, body, loc) : params \in ParamLists, body \in Bodies}

DeclPrograms == {<<stmt>> : stmt \in CompoundStmts} \cup SeqsUpTo(LeafStmts, MaxBody)

RECURSIVE Relocate(_, _)
RECURSIVE RelocateAll(_, _, _)

\* The locations the parser gives the statements of a program written one
\* statement to a line: statement n of the text is at line n, a parameter
\* at the line of its declaration and the column of its position.
RelocateAll(list, done, n) ==
    IF Len(done) = Len(list) THEN [stmts |-> done, next |-> n]
    ELSE LET r == Relocate(list[Len(done) + 1], n)
         IN  RelocateAll(list, Append(done, r.stmt), r.next)

Relocate(stmt, n) ==
    LET loc == SourceLocation(n, 0)
    IN  IF stmt.kind = "Block"
        THEN LET r == RelocateAll(stmt.stmts, <<>>, n + 1)
             IN  [stmt |-> [stmt EXCEPT !.loc = loc, !.stmts = r.stmts], next |-> r.next]
        ELSE IF stmt.kind \in {"Func", "OperatorDecl"}
        THEN LET params == [i \in 1..Len(stmt.params) |->
                               [stmt.params[i] EXCEPT !.loc = SourceLocation(n, i)]]
                 r == IF stmt.body = NullOpt THEN [stmt |-> NullOpt, next |-> n + 1]
                      ELSE Relocate(stmt.body, n + 1)
             IN  [stmt |-> [stmt EXCEPT !.loc = loc, !.params = params, !.body = r.stmt],
                  next |-> r.next]
        ELSE IF stmt.kind = "If"
        THEN LET t == Relocate(stmt.then_branch, n + 1)
                 e == IF stmt.else_branch = NullOpt THEN [stmt |-> NullOpt, next |-> t.next]
                      ELSE Relocate(stmt.else_branch, t.next)
             IN  [stmt |-> [stmt EXCEPT !.loc = loc, !.then_branch = t.stmt,
                                        !.else_branch = e.stmt],
                  next |-> e.next]
        ELSE IF stmt.kind = "While"
        THEN LET b == Relocate(stmt.body, n + 1)
             IN  [stmt |-> [stmt EXCEPT !.loc = loc, !.body = b.stmt], next |-> b.next]
        ELSE [stmt |-> [stmt EXCEPT !.loc = loc], next |-> n + 1]

\* Typed programs.  Every one starts with "func t() : bool { return true; }"
\* and the declarations of "++" as a prefix and as a postfix operator;
\* its statements are written one to a line and are described by a kind,
\* the lexemes e of the expression and, for a compound statement, a body.
TypedExprs ==
    { <<"1">>, <<"true">>, <<"a">>, <<"1", "-", "true">>, <<"a", "-", "1">>,
      <<"true", "||", "t", "(", ")">>, <<"1", "++">> }

Leaf(kind, e) == [kind |-> kind, e |-> e, body |-> <<>>]
Compound(kind, e, body) == [kind |-> kind, e |-> e, body |-> body]

TypedLeaves == {Leaf(kind, e) : kind \in {"Let", "LetI32", "Expr", "Return"}, e \in TypedExprs}

BodyLeaves ==
    { Leaf("Let", <<"true">>), Leaf("Return", <<"1">>), Leaf("Expr", <<"a">>),
      Compound("Block", <<"true">>, <<Leaf("Let", <<"true">>)>>),
      Compound("While", <<"true">>, <<>>) }

TypedBodies == {<<>>} \cup SeqsUpTo(BodyLeaves, MaxBody)

TypedCompounds ==
    {Compound(kind, <<"true">>, body) :
        kind \in {"Block", "If", "Else", "While", "Func", "OperatorDecl"}, body \in TypedBodies}

TypedPrograms ==
    SeqsUpTo(TypedLeaves, 2)
    \cup {pre \o <<c>> \o post :
            pre \in {<<>>, <<Leaf("Let", <<"1">>)>>},
            c \in TypedCompounds,
            post \in {<<>>, <<Leaf("Expr", <<"a">>)>>, <<Leaf("Return", <<"a">>)>>}}

RECURSIVE Written(_, _)
RECURSIVE WrittenAll(_, _, _)

\* The statements of a list of descriptions, the first on line n.
WrittenAll(list, done, n) ==
    IF Len(done) = Len(list) THEN [stmts |-> done, next |-> n]
    ELSE With(Written(list[Len(done) + 1], n),
              LAMBDA r : WrittenAll(list, Append(done, r.stmt), r.next))

\* The statement of a description written on line n as the parser builds
\* it, and the line after its last one.
Written(d, n) ==
    With(SourceLocation(n, 0), LAMBDA loc :
    With(ParseLine(d.e, IF d.kind \in {"If", "Else", "While"} THEN "{" ELSE ";", n).expr,
         LAMBDA expr :
    With(WrittenAll(d.body, <<>>, n + 1), LAMBDA b :
        [next |-> b.next,
         stmt |-> CASE d.kind = "Let" -> LetStmt("a", NullOpt, expr, loc)
                    [] d.kind = "LetI32" -> LetStmt("a", i32, expr, loc)
                    [] d.kind = "Expr" -> ExprStmt(expr, loc)
                    [] d.kind = "Return" -> ReturnStmt(expr, loc)
                    [] d.kind = "Block" -> BlockStmt(b.stmts, loc)
                    [] d.kind = "If" -> IfStmt(expr, BlockStmt(b.stmts, loc), NullOpt, loc)
                    [] d.kind = "Else" ->
                          IfStmt(expr, BlockStmt(b.stmts, loc),
                                 BlockStmt(<<ReturnStmt(IntLiteralExpr(<<"0">>, loc), loc)>>, loc),
                                 loc)
                    [] d.kind = "While" -> WhileStmt(expr, BlockStmt(b.stmts, loc), loc)
                    [] d.kind = "Func" ->
                          FuncStmt("f", Params1(n), i32, BlockStmt(b.stmts, loc), loc)
                    [] d.kind = "OperatorDecl" ->
                          OperatorDeclStmt("~", "Prefix", Params1(n), i32, 0, "Left",
                                           BlockStmt(b.stmts, loc), loc)])))

TypedDecls ==
    << FuncStmt("t", <<>>, bool,
                BlockStmt(<<ReturnStmt(BoolLiteralExpr(TRUE, SourceLocation(1, 3)),
                                       SourceLocation(1, 2))>>,
                          SourceLocation(1, 1)),
                SourceLocation(1, 0)),
       UnaryDecl("++", "Prefix", 2),
       UnaryDecl("++", "Postfix", 3) >>

\* Numbers.  The lexer takes a run of digits of any length as one Integer
\* token; the programs below write runs of nines of up to MaxDigits digits
\* and the numbers next to INT_MAX and LLONG_MAX.
Nines(n) == [i \in 1..n |-> "9"]

DigitsOf(values) == [i \in 1..Len(values) |-> ToString(values[i])]

Successor(values) == [values EXCEPT ![Len(values)] = @ + 1]

Numbers ==
    {Nines(n) : n \in 1..MaxDigits}
    \cup {DigitsOf(IntMax), DigitsOf(Successor(IntMax)),
          DigitsOf(LLongMax), DigitsOf(Successor(LLongMax))}

Precedences == {<<"5">>, DigitsOf(IntMax), DigitsOf(Successor(IntMax)), Nines(MaxDigits)}

\* Source text.  A word is a token's kind and lexeme with its width in
\* columns; the words of a line are one space apart and the first is in
\* column 1, as the lexer counts (src/unnamed/part_012).
Word(kind, lexeme, width) == [kind |-> kind, lexeme |-> lexeme, width |-> width]

Kw(lexeme, width) == Word("Keyword", lexeme, width)
Id(lexeme, width) == Word("Identifier", lexeme, width)
Op(lexeme, width) == Word("Operator", lexeme, width)
Pu(lexeme) == Word("Punctuation", lexeme, 1)
Num(digits) == Word("Integer", digits, Len(digits))
Comment == Word("Comment", "# c", 3)

RECURSIVE LineTokens(_, _, _, _)
LineTokens(words, i, line, column) ==
    IF i > Len(words) THEN <<>>
    ELSE <<TokenTo(words[i].kind, words[i].lexeme, line, column, column + words[i].width)>>
         \o LineTokens(words, i + 1, line, column + words[i].width + 1)

RECURSIVE SourceTokens(_, _)
\* The tokens of the lines from line n on and the end of the file.
SourceTokens(lines, n) ==
    IF n > Len(lines) THEN <<TokenTo("EndOfFile", "", n, 1, 1)>>
    ELSE LineTokens(lines[n], 1, n, 1) \o SourceTokens(lines, n + 1)

\* "operator infix +<(a : i32, b : i32) : i32 prec p;" and "let a = n;"
NumberSource(p, n) ==
    << << Kw("operator", 8), Kw("infix", 5), Op("+<", 2), Pu("("), Id("a", 1), Pu(":"),
          Id("i32", 3), Pu(","), Id("b", 1), Pu(":"), Id("i32", 3), Pu(")"), Pu(":"),
          Id("i32", 3), Kw("prec", 4), Num(p), Pu(";") >>,
       << Kw("let", 3), Id("a", 1), Op("=", 1), Num(n), Pu(";") >> >>

\* The lines the sources are made of: statements, statements with a token
\* missing, a comment before the end of the line, blocks and a lone "}".
Lines ==
    { << Kw("let", 3), Id("x", 1), Op("=", 1), Num(<<"1">>), Pu(";") >>,
      << Kw("let", 3), Id("x", 1), Op("=", 1), Num(<<"4", "2">>) >>,
      << Kw("let", 3), Id("x", 1), Op("=", 1), Num(<<"4", "2">>), Comment >>,
      << Kw("let", 3), Id("x", 1), Num(<<"1">>), Pu(";") >>,
      << Id("x", 1), Pu(";") >>,
      << Pu("("), Id("x", 1), Pu(";") >>,
      << Pu("}") >>,
      << Pu("{"), Kw("return", 6), Num(<<"1">>), Pu("}") >>,
      << Pu("{"), Id("x", 1), Pu(";"), Pu("}") >>,
      << Kw("operator", 8), Kw("prefix", 6), Op("~", 1), Pu("("), Id("a", 1), Pu(":"),
         Id("i32", 3), Pu(")"), Pu(":"), Id("i32", 3), Pu(";") >>,
      << Kw("return", 6), Num(<<"1">>), Pu(";") >>,
      << Kw("if", 2), Id("x", 1), Pu("{"), Id("x", 1), Pu(";"), Pu("}") >>,
      << Kw("while", 5), Id("x", 1), Pu("{"), Kw("let", 3), Id("x", 1), Op("=", 1),
         Num(<<"1">>), Pu(";"), Pu("}") >>,
      << Kw("func", 4), Id("f", 1), Pu("("), Pu(")"), Pu("{"), Kw("return", 6),
         Num(<<"1">>), Pu(";"), Pu("}") >> }

Sources == SeqsUpTo(Lines, MaxLines)

-----------------------------------------------------------------------------
(* The driver: src/src/driver.cpp *)

\* The characters of the texts: a letter, a digit, an operator character,
\* a punctuation character, blank and newline, the comment sign, the
\* quote, the backslash and a character of no token.
Alphabet == {"e", "1", "+", ";", " ", "\n", "#", "\"", "\\", "@"}

\* The texts handed to the lexer.
Texts == SeqsUpTo(Alphabet, MaxSource)

\* Words of the shape of an identifier: the keywords of the lexer, the
\* keywords the parser tests for, and names.
Words ==
    { <<"l", "e", "t">>, <<"f", "u", "n", "c">>, <<"i", "f">>, <<"e", "l", "s", "e">>,
      <<"r", "e", "t", "u", "r", "n">>, <<"w", "h", "i", "l", "e">>,
      <<"t", "r", "u", "e">>, <<"f", "a", "l", "s", "e">>,
      <<"o", "p", "e", "r", "a", "t", "o", "r">>, <<"p", "r", "e", "f", "i", "x">>,
      <<"p", "o", "s", "t", "f", "i", "x">>, <<"i", "n", "f", "i", "x">>,
      <<"p", "r", "e", "c">>, <<"a", "s", "s", "o", "c">>, <<"l", "e", "f", "t">>,
      <<"r", "i", "g", "h", "t">>, <<"n", "o", "n", "e">>,
      <<"a", "s", "s", "o", "c", "_", "l", "e", "f", "t">>,
      <<"a", "s", "s", "o", "c", "_", "r", "i", "g", "h", "t">>, <<"x">>,
      <<"l", "e", "t", "s">>, <<"_">>, <<"i", "f", "1">>, <<"e", "1">> }

Init ==
    /\ pc = "start"
    /\ stmts = <<>>
    /\ parsed = <<>>
    /\ symbols = ScopedSymbolTable
    /\ builder_errors = <<>>
    /\ resolve_errors = <<>>
    /\ decl_log = <<>>
    /\ type_errors = <<>>
    /\ module_ = <<>>
    /\ codegen_errors = <<>>
    /\ tokens_ = <<>>
    /\ parse_errors = <<>>
    /\ synchronized = <<>>
    /\ source_ = <<>>
    /\ spans = <<>>

\* parser.parse_program() returned program without a parse error.
Parsed(program) ==
    /\ pc' = "parsed"
    /\ stmts' = program
    /\ parsed' = program
    /\ UNCHANGED <<symbols, builder_errors, resolve_errors, decl_log, backend, frontend, lexer>>

\* Two overloads of the infix operator "<>", on i32 and on bool, each
\* declared with a precedence and an associativity, and the operator "*<"
\* between them in precedence.
OverloadPrecedences == {60, 90}

OverloadDecls(p, a, q, b) ==
    << InfixDecl("<>", p, a, 1),
       OperatorDeclStmt("<>", "Infix",
                        <<Parameter("a", bool, SourceLocation(2, 1)),
                          Parameter("b", bool, SourceLocation(2, 2))>>,
                        bool, q, b, NullOpt, SourceLocation(2, 0)),
       InfixDecl("*<", 80, "Left", 3) >>

\* Two definitions of one name, each with a body that returns its own
\* number: definition n returns n.
Returning(n, line) ==
    BlockStmt(<<ReturnStmt(IntLiteralExpr(<<ToString(n)>>, SourceLocation(line, 3)),
                           SourceLocation(line, 2))>>,
              SourceLocation(line, 1))

\* "func f(a : type) : i32 { return n; }"
FuncDef(type, n, line) ==
    FuncStmt("f", <<Parameter("a", type, SourceLocation(line, 4))>>, i32,
             Returning(n, line), SourceLocation(line, 0))

\* "operator position ++(a : i32) : i32 { return n; }"
UnaryDef(position, n, line) ==
    OperatorDeclStmt("++", position, <<Parameter("a", i32, SourceLocation(line, 4))>>,
                     i32, 0, "Left", Returning(n, line), SourceLocation(line, 0))

\* "f(1);" and "f(true);"
CallOfF(arg, line) ==
    ExprStmt(CallExpr(IdentifierExpr("f", SourceLocation(line, 1)), <<arg>>,
                      SourceLocation(line, 1)),
             SourceLocation(line, 1))

\* The overloads of f on i32 and on bool in both orders with a call of
\* one of them, and prefix and postfix "++" on i32 in both orders with
\* "++ 1;" or "1 ++;".
OverloadedPrograms ==
    { <<FuncDef(d[1], 1, 1), FuncDef(d[2], 2, 2), CallOfF(arg, 3)>> :
          d \in {<<i32, bool>>, <<bool, i32>>},
          arg \in {IntLiteralExpr(<<"1">>, SourceLocation(3, 3)),
                   BoolLiteralExpr(TRUE, SourceLocation(3, 3))} }
    \cup
    { <<UnaryDef(d[1], 1, 1), UnaryDef(d[2], 2, 2),
        StmtWith("Expr", ParseLine(lexemes, ";", 3).expr, 3)>> :
          d \in {<<"Prefix", "Postfix">>, <<"Postfix", "Prefix">>},
          lexemes \in {<<"++", "1">>, <<"1", "++">>} }

\* The source declares the infix operators and binds "x op x op x ...".
ParseInfix ==
    /\ pc = "start"
    /\ \E ops \in SeqsUpTo(InfixSymbols, MaxInfix) :
          LET line == Len(InfixDecls) + 1
              r == ParseLine(InfixChain(ops), ";", line)
          IN  r.ok /\ Parsed(InfixDecls \o <<StmtWith("Let", r.expr, line)>>)

\* The source declares the overloads of "<>" and binds "x op x op x ...".
ParseOverloads ==
    /\ pc = "start"
    /\ \E p, q \in OverloadPrecedences, a, b \in {"Left", "Right"},
          ops \in SeqsUpTo({"<>", "*<"}, MaxInfix) :
          LET r == ParseLine(InfixChain(ops), ";", 4)
          IN  r.ok /\ Parsed(OverloadDecls(p, a, q, b) \o <<StmtWith("Let", r.expr, 4)>>)

\* The source defines a name twice and uses one of the definitions.
ParseOverloaded ==
    /\ pc = "start"
    /\ \E program \in OverloadedPrograms : Parsed(program)

\* The source declares "++" and has one expression statement of operands,
\* prefix, postfix and infix operators.
ParseUnary ==
    /\ pc = "start"
    /\ \E lexemes \in SeqsUpTo(UnarySymbols, MaxItems) :
          LET line == Len(UnaryDecls) + 1
              r == ParseLine(lexemes, ";", line)
          IN  r.ok /\ Parsed(UnaryDecls \o <<StmtWith("Expr", r.expr, line)>>)

\* The source is one statement with an expression of calls, parentheses
\* and operators in it.
ParseStmt ==
    /\ pc = "start"
    /\ \E template \in Templates, lexemes \in SeqsUpTo(ExprSymbols, MaxTokens) :
          LET r == ParseLine(lexemes, Terminator(template), 1)
          IN  r.ok /\ Parsed(<<StmtWith(template, r.expr, 1)>>)

\* The source is a program of declarations.
ParseDecls ==
    /\ pc = "start"
    /\ \E program \in DeclPrograms : Parsed(RelocateAll(program, <<>>, 1).stmts)

\* The source is a typed program.
ParseTyped ==
    /\ pc = "start"
    /\ \E program \in TypedPrograms :
          Parsed(TypedDecls \o WrittenAll(program, <<>>, Len(TypedDecls) + 1).stmts)

\* "pecco::Parser parser(std::move(tokens)); auto stmts =
\* parser.parse_program(); if (parser.has_errors()) return 1;".  An
\* exception of std::stoi leaves parse_program and main; a parse that does
\* not end never returns.
ParseTokens(tokens) ==
    LET r == ParseProgram(Parser(tokens))
    IN  /\ tokens_' = tokens
        /\ IF r.P.thrown
           THEN /\ pc' = "thrown"
                /\ UNCHANGED <<stmts, parsed, parse_errors, synchronized>>
           ELSE /\ stmts' = r.stmts
                /\ parsed' = r.stmts
                /\ parse_errors' = r.P.errors
                /\ synchronized' = r.P.synchronized
                /\ pc' = IF r.diverges THEN "diverges"
                         ELSE IF r.P.errors # <<>> THEN "failed"
                         ELSE "parsed"
        /\ UNCHANGED <<symbols, builder_errors, resolve_errors, decl_log, backend, lexer>>

\* The source declares an infix operator with the precedence p and binds
\* the number n.
ParseNumbers ==
    /\ pc = "start"
    /\ \E p \in Precedences, n \in Numbers : ParseTokens(SourceTokens(NumberSource(p, n), 1))

\* The source is lines of statements, well-formed or not.
ParseSource ==
    /\ pc = "start"
    /\ \E source \in Sources : ParseTokens(SourceTokens(source, 1))

\* builder.load_prelude: collect with collecting_prelude_ set.
LoadPrelude ==
    /\ pc = "parsed"
    /\ LET B == Collect(Prelude, [SymbolTableBuilder(symbols, builder_errors, decl_log)
                                     EXCEPT !.collecting_prelude_ = TRUE])
       IN  /\ symbols' = B.symbols
           /\ builder_errors' = B.errors_
           /\ decl_log' = B.log
           /\ pc' = IF B.errors_ = <<>> THEN "prelude" ELSE "failed"
    /\ UNCHANGED <<stmts, parsed, resolve_errors, backend, frontend, lexer>>

\* builder.collect(stmts, scoped_symbols); the driver stops on an error.
CollectDeclarations ==
    /\ pc = "prelude"
    /\ LET B == Collect(stmts, SymbolTableBuilder(symbols, builder_errors, decl_log))
       IN  /\ symbols' = B.symbols
           /\ builder_errors' = B.errors_
           /\ decl_log' = B.log
           /\ pc' = IF B.errors_ = <<>> THEN "collected" ELSE "failed"
    /\ UNCHANGED <<stmts, parsed, resolve_errors, backend, frontend, lexer>>

\* "for (auto &stmt : stmts) OperatorResolver::resolve_stmt(stmt.get(), ...)"
ResolveOperators ==
    /\ pc = "collected"
    /\ LET r == ResolveStmts(stmts, symbols.operators, <<>>, resolve_errors)
       IN  stmts' = r.stmts /\ resolve_errors' = r.errors
    /\ pc' = "resolved"
    /\ UNCHANGED <<parsed, symbols, builder_errors, decl_log, backend, frontend, lexer>>

\* The resolver run once more over the statements it has resolved.
ResolveAgain ==
    /\ pc = "resolved"
    /\ LET r == ResolveStmts(stmts, symbols.operators, <<>>, resolve_errors)
       IN  stmts' = r.stmts /\ resolve_errors' = r.errors
    /\ pc' = "resolved2"
    /\ UNCHANGED <<parsed, symbols, builder_errors, decl_log, backend, frontend, lexer>>

\* "type_checker.check(stmts, scoped_symbols)", reached when the resolver
\* reported no error; the driver stops on a type error.
CheckTypes ==
    /\ pc = "resolved"
    /\ resolve_errors = <<>>
    /\ LET r == TypeCheckerCheck(stmts, symbols)
       IN  /\ stmts' = r.stmts
           /\ type_errors' = r.errors_
           /\ pc' = IF r.errors_ = <<>> THEN "checked" ELSE "failed"
    /\ UNCHANGED <<parsed, symbols, builder_errors, resolve_errors, decl_log,
                   module_, codegen_errors, frontend, lexer>>

\* "codegen.generate(stmts, scoped_symbols)".  An exception leaves main and
\* ends the process; where an instruction was built from operands whose
\* types do not agree, a build of LLVM with assertions stops there.
GenerateCode ==
    /\ pc = "checked"
    /\ LET G == Generate(stmts, symbols)
       IN  \/ /\ G.thrown
              /\ pc' = "thrown"
              /\ UNCHANGED <<module_, codegen_errors>>
           \/ /\ ~G.thrown /\ G.malformed
              /\ pc' = "aborted"
              /\ UNCHANGED <<module_, codegen_errors>>
           \/ /\ ~G.thrown
              /\ module_' = G.module_
              /\ codegen_errors' = G.errors_
              /\ pc' = IF G.errors_ = <<>> THEN "generated" ELSE "failed"
    /\ UNCHANGED <<stmts, parsed, symbols, builder_errors, resolve_errors, decl_log,
                   type_errors, frontend, lexer>>

\* The driver lexes the source (src/src/driver.cpp:525-545) and stops when
\* a token is an error.
Tokenize(source) ==
    LET r == TokenizeAll(source)
    IN  /\ source_' = source
        /\ tokens_' = r.tokens
        /\ spans' = r.seen
        /\ pc' = IF r.diverges THEN "diverges"
                 ELSE IF \E k \in 1..Len(r.tokens) : r.tokens[k].kind = "Error" THEN "rejected"
                 ELSE "lexed"
        /\ UNCHANGED <<stmts, parsed, symbols, builder_errors, resolve_errors, decl_log,
                       backend, parse_errors, synchronized>>

LexText == pc = "start" /\ \E source \in Texts : Tokenize(source)

LexWord == pc = "start" /\ \E word \in Words : Tokenize(word)

Next ==
    \/ ParseInfix
    \/ ParseOverloads
    \/ ParseOverloaded
    \/ ParseUnary
    \/ ParseStmt
    \/ ParseDecls
    \/ ParseTyped
    \/ ParseNumbers
    \/ ParseSource
    \/ LoadPrelude
    \/ CollectDeclarations
    \/ ResolveOperators
    \/ ResolveAgain
    \/ CheckTypes
    \/ GenerateCode

Spec == Init /\ [][Next]_vars

\* The lexer alone, on texts.
LexerNext == LexText \/ LexWord

LexerSpec == Init /\ [][LexerNext]_vars

-----------------------------------------------------------------------------
(* Walks over the AST, for the properties below *)

RECURSIVE HasOperatorSeq(_)
\* An operator-sequence node occurs in the expression.
HasOperatorSeq(expr) ==
    IF expr.kind = "OperatorSeq" THEN TRUE
    ELSE IF expr.kind = "Call"
    THEN HasOperatorSeq(expr.callee) \/ \E i \in 1..Len(expr.args) : HasOperatorSeq(expr.args[i])
    ELSE IF expr.kind = "Binary" THEN HasOperatorSeq(expr.left) \/ HasOperatorSeq(expr.right)
    ELSE IF expr.kind = "Unary" THEN HasOperatorSeq(expr.operand)
    ELSE FALSE

RECURSIVE StmtHasOperatorSeq(_)
\* An operator-sequence node occurs in an expression of the statement.
StmtHasOperatorSeq(stmt) ==
    IF stmt.kind = "Let" THEN HasOperatorSeq(stmt.init)
    ELSE IF stmt.kind \in {"Func", "OperatorDecl"} THEN StmtHasOperatorSeq(stmt.body)
    ELSE IF stmt.kind = "If"
    THEN HasOperatorSeq(stmt.condition) \/ StmtHasOperatorSeq(stmt.then_branch)
         \/ StmtHasOperatorSeq(stmt.else_branch)
    ELSE IF stmt.kind = "Return" THEN HasOperatorSeq(stmt.value)
    ELSE IF stmt.kind = "While"
    THEN HasOperatorSeq(stmt.condition) \/ StmtHasOperatorSeq(stmt.body)
    ELSE IF stmt.kind = "Expr" THEN HasOperatorSeq(stmt.expr)
    ELSE IF stmt.kind = "Block"
    THEN \E i \in 1..Len(stmt.stmts) : StmtHasOperatorSeq(stmt.stmts[i])
    ELSE FALSE

\* The expression the infix, unary and one-statement programs end with.
LastExpr(program) ==
    LET stmt == program[Len(program)]
    IN  IF stmt.kind = "Let" THEN stmt.init
        ELSE IF stmt.kind = "Expr" THEN stmt.expr
        ELSE Null

\* A tree without its locations: kind, operator, position and subtrees.
Node(kind, op, position, args) == [kind |-> kind, op |-> op, position |-> position, args |-> args]

RECURSIVE Shape(_)
Shape(expr) ==
    IF expr.kind = "Unary" THEN Node("Unary", expr.op, expr.position, <<Shape(expr.operand)>>)
    ELSE IF expr.kind = "Binary"
    THEN Node("Binary", expr.op, "Infix", <<Shape(expr.left), Shape(expr.right)>>)
    ELSE IF expr.kind = "Call"
    THEN Node("Call", "", "", <<Shape(expr.callee)>> \o [i \in 1..Len(expr.args) |-> Shape(expr.args[i])])
    ELSE IF expr.kind = "Identifier" THEN Node("Identifier", expr.name, "", <<>>)
    ELSE Node(expr.kind, "", "", <<>>)

-----------------------------------------------------------------------------
(* C1 *)

\* C1: once the resolver has run over the parsed program, no operator-sequence
\* node is left in any statement: not in an expression statement, a let
\* initializer, a condition, a return value, a function or operator body, a
\* call's callee or arguments, or an operand in parentheses.
C1_NoOperatorSeqAfterResolve ==
    pc \in {"resolved", "resolved2"} =>
        \A i \in 1..Len(stmts) : ~StmtHasOperatorSeq(stmts[i])

\* The resolver has resolved, without an error, a while condition that is a
\* call with an operator sequence as argument.
C1_Witness ==
    /\ pc = "resolved"
    /\ resolve_errors = <<>>
    /\ \E i \in 1..Len(parsed) :
          /\ parsed[i].kind = "While"
          /\ parsed[i].condition.kind = "Call"
          /\ \E j \in 1..Len(parsed[i].condition.args) :
                parsed[i].condition.args[j].kind = "OperatorSeq"
          /\ stmts[i].condition.kind = "Call"

-----------------------------------------------------------------------------
(* Sequences "operand (infix-operator operand)*" *)

\* The collected operator table declares op in the position.
DeclaredAs(op, position) == FindOperator(symbols.operators, op, position) # NullOpt

\* items is "operand (infix-operator operand)*" with at least one operator:
\* operands without an operator sequence in them at the odd places, and at
\* the even places operators declared infix and not postfix.
IsInfixChain(items) ==
    /\ Len(items) >= 3
    /\ Len(items) % 2 = 1
    /\ \A i \in 1..Len(items) :
          IF i % 2 = 1
          THEN items[i].kind = "Operand" /\ ~HasOperatorSeq(items[i].operand)
          ELSE /\ items[i].kind = "Operator"
               /\ DeclaredAs(items[i].op, "Infix")
               /\ ~DeclaredAs(items[i].op, "Postfix")

\* The m-th operator of the chain and what the table declares for it.
ChainOp(items, m) == items[2 * m]
ChainOps(items) == 1..(Len(items) \div 2)
PrecedenceOf(items, m) == FindOperator(symbols.operators, ChainOp(items, m).op, "Infix").precedence
AssocOf(items, m) == FindOperator(symbols.operators, ChainOp(items, m).op, "Infix").assoc

\* The operators of the range lo..hi that have the lowest precedence in it.
AtLowest(items, lo, hi) ==
    {m \in lo..hi : \A k \in lo..hi : PrecedenceOf(items, m) <= PrecedenceOf(items, k)}

\* Two operators of the chain share a precedence and differ in associativity.
Disagree(items, m, k) ==
    /\ PrecedenceOf(items, m) = PrecedenceOf(items, k)
    /\ AssocOf(items, m) # AssocOf(items, k)

Greatest(S) == CHOOSE m \in S : \A k \in S : k <= m
Least(S) == CHOOSE m \in S : \A k \in S : m <= k

\* The error was reported at the token of the m-th operator.
ErrorAt(err, items, m) ==
    /\ err.line = ChainOp(items, m).loc.line
    /\ err.column = ChainOp(items, m).loc.column

-----------------------------------------------------------------------------
(* C2 *)

\* The operator the range lo..hi is to be split at: of the operators with the
\* lowest precedence, the rightmost when they are left-associative and the
\* leftmost when they are right-associative; 0 when they disagree.
ExpectedRoot(items, lo, hi) ==
    IF \A m \in AtLowest(items, lo, hi) : AssocOf(items, m) = "Left"
    THEN Greatest(AtLowest(items, lo, hi))
    ELSE IF \A m \in AtLowest(items, lo, hi) : AssocOf(items, m) = "Right"
    THEN Least(AtLowest(items, lo, hi))
    ELSE 0

RECURSIVE RootsAreLowest(_, _, _, _)
RECURSIVE RootIs(_, _, _, _, _)

\* tree is the tree of the operators lo..hi, and the root of each of its
\* sub-ranges is the expected one.
RootsAreLowest(tree, items, lo, hi) ==
    IF lo > hi THEN TRUE
    ELSE RootIs(tree, items, lo, hi, ExpectedRoot(items, lo, hi))

RootIs(tree, items, lo, hi, root) ==
    \/ root = 0
    \/ /\ tree.kind = "Binary"
       /\ tree.op = ChainOp(items, root).op
       /\ tree.loc = ChainOp(items, root).loc
       /\ RootsAreLowest(tree.left, items, lo, root - 1)
       /\ RootsAreLowest(tree.right, items, root + 1, hi)

\* C2: in the tree the resolver builds for "operand (infix-operator operand)*"
\* the root of every sub-range is an operator of the lowest precedence in that
\* range: the rightmost of them when they are left-associative, the leftmost
\* when they are right-associative.
C2_RootIsLowestPrecedence ==
    ( /\ pc = "resolved"
      /\ LastExpr(parsed).kind = "OperatorSeq"
      /\ IsInfixChain(LastExpr(parsed).items)
      /\ LastExpr(stmts) # Null )
    => RootsAreLowest(LastExpr(stmts), LastExpr(parsed).items, 1,
                      Len(LastExpr(parsed).items) \div 2)

-----------------------------------------------------------------------------
(* C3 *)

\* Two operators at the lowest precedence of the chain disagree.
MixedAtLowest(items) ==
    \E m, k \in AtLowest(items, 1, Len(items) \div 2) : Disagree(items, m, k)

\* The second of the conflicting operators: the first operator at the lowest
\* precedence that disagrees with one at that precedence before it.
SecondConflicting(items) ==
    Least({m \in AtLowest(items, 1, Len(items) \div 2) :
              \E k \in AtLowest(items, 1, Len(items) \div 2) :
                  k < m /\ Disagree(items, m, k)})

\* C3: when two infix operators at the lowest precedence of an expression
\* disagree on associativity, resolving the expression appends exactly one
\* error, at the line and column of the second of the conflicting operator
\* tokens, and returns no tree.
C3_MixedAssociativityAtLowest ==
    ( /\ pc = "resolved"
      /\ LastExpr(parsed).kind = "OperatorSeq"
      /\ IsInfixChain(LastExpr(parsed).items)
      /\ MixedAtLowest(LastExpr(parsed).items) )
    => /\ Len(resolve_errors) = 1
       /\ ErrorAt(resolve_errors[1], LastExpr(parsed).items,
                  SecondConflicting(LastExpr(parsed).items))
       /\ LastExpr(stmts) = Null

-----------------------------------------------------------------------------
(* C4 *)

\* The m-th operator has, somewhere in the chain, an operator of its
\* precedence and of the other associativity.
Offending(items, m) == \E k \in ChainOps(items) : Disagree(items, m, k)

\* C4: for every sequence with two infix operators of the same precedence
\* whose associativities disagree, wherever they stand and whatever
\* operators lie between them, the resolver reports an error at the token
\* of an offending operator.
C4_DisagreementAnywhereIsAnError ==
    ( /\ pc = "resolved"
      /\ LastExpr(parsed).kind = "OperatorSeq"
      /\ IsInfixChain(LastExpr(parsed).items)
      /\ \E m \in ChainOps(LastExpr(parsed).items) : Offending(LastExpr(parsed).items, m) )
    => \E e \in 1..Len(resolve_errors) :
          \E m \in ChainOps(LastExpr(parsed).items) :
              /\ Offending(LastExpr(parsed).items, m)
              /\ ErrorAt(resolve_errors[e], LastExpr(parsed).items, m)

-----------------------------------------------------------------------------
(* C5 *)

\* items[k] is the operand of "p1 ... pk X q1 ... qm" filling items[1..last]:
\* prefix operators before it, postfix operators after it, and X itself
\* without an operator sequence in it.
UnaryGroup(items, k, last) ==
    /\ k \in 1..last
    /\ items[k].kind = "Operand"
    /\ ~HasOperatorSeq(items[k].operand)
    /\ \A j \in 1..(k - 1) : items[j].kind = "Operator" /\ DeclaredAs(items[j].op, "Prefix")
    /\ \A j \in (k + 1)..last : items[j].kind = "Operator" /\ DeclaredAs(items[j].op, "Postfix")

RECURSIVE Nesting(_, _, _)
\* qm(...q1(p1(...pk(X)))), without locations.
Nesting(prefixes, X, postfixes) ==
    IF Len(postfixes) > 0
    THEN Node("Unary", postfixes[Len(postfixes)], "Postfix",
              <<Nesting(prefixes, X, SubSeq(postfixes, 1, Len(postfixes) - 1))>>)
    ELSE IF Len(prefixes) > 0
    THEN Node("Unary", prefixes[1], "Prefix",
              <<Nesting(SubSeq(prefixes, 2, Len(prefixes)), X, <<>>)>>)
    ELSE Shape(X)

GroupNesting(items, k, last) ==
    Nesting([j \in 1..(k - 1) |-> items[j].op], items[k].operand,
            [j \in 1..(last - k) |-> items[k + j].op])

RECURSIVE LeftmostOperand(_)
\* The leftmost operand of a tree of binary nodes.
LeftmostOperand(shape) ==
    IF shape.kind = "Binary" THEN LeftmostOperand(shape.args[1]) ELSE shape

\* C5: an operand written p1 ... pk X q1 ... qm, every pi declared prefix and
\* every qj declared postfix, resolves to qm(...q1(p1(...pk(X)))); when an
\* infix operator and a second operand follow it, the left operand of the tree
\* the resolver returns is that same nesting, built before the infix operator
\* is looked at.
C5_PrefixThenPostfixNesting ==
    pc = "resolved" /\ LastExpr(parsed).kind = "OperatorSeq" =>
        LET items == LastExpr(parsed).items
            n == Len(items)
            result == LastExpr(stmts)
        IN  /\ \A k \in 1..n :
                  UnaryGroup(items, k, n) =>
                      result # Null /\ Shape(result) = GroupNesting(items, k, n)
            /\ \A k \in 1..(n - 2) :
                  ( /\ UnaryGroup(items, k, n - 2)
                    /\ items[n - 1].kind = "Operator"
                    /\ DeclaredAs(items[n - 1].op, "Infix")
                    /\ ~DeclaredAs(items[n - 1].op, "Postfix")
                    /\ items[n].kind = "Operand" )
                  => ( result # Null =>
                         LeftmostOperand(Shape(result)) = GroupNesting(items, k, n - 2) )

\* The resolver has resolved an operand with two prefix operators before it
\* and two postfix operators after it.
C5_Witness ==
    /\ pc = "resolved"
    /\ resolve_errors = <<>>
    /\ LastExpr(parsed).kind = "OperatorSeq"
    /\ Len(LastExpr(parsed).items) = 5
    /\ UnaryGroup(LastExpr(parsed).items, 3, 5)
    /\ LastExpr(parsed).items[1].op # LastExpr(parsed).items[2].op
    /\ LastExpr(stmts).kind = "Unary"

-----------------------------------------------------------------------------
(* C6 *)

\* C6: a second run of the resolver over statements it has already resolved
\* changes nothing: the statements are the same and no error is appended.
C6_SecondRunIsNoOp ==
    [][pc = "resolved" /\ pc' = "resolved2" =>
          stmts' = stmts /\ resolve_errors' = resolve_errors]_vars

\* The second run is over, on a program in which the first run built a
\* binary node on top of a unary node.
C6_Witness ==
    /\ pc = "resolved2"
    /\ resolve_errors = <<>>
    /\ LastExpr(stmts) # Null
    /\ LastExpr(stmts).kind = "Binary"
    /\ LastExpr(stmts).left.kind = "Unary"

-----------------------------------------------------------------------------
(* C7 *)

RECURSIVE OperatorTokens(_)
\* The operator tokens of an expression as the parser left them: symbol and
\* location of every operator item, in nested sequences too.
OperatorTokens(expr) ==
    IF expr.kind = "OperatorSeq"
    THEN UNION {IF expr.items[i].kind = "Operator"
                THEN {[op |-> expr.items[i].op, loc |-> expr.items[i].loc]}
                ELSE OperatorTokens(expr.items[i].operand) : i \in 1..Len(expr.items)}
    ELSE IF expr.kind = "Call"
    THEN OperatorTokens(expr.callee)
         \cup UNION {OperatorTokens(expr.args[i]) : i \in 1..Len(expr.args)}
    ELSE {}

RECURSIVE SynthesizedNodes(_)
\* Symbol and location of every unary and binary node of a resolved tree.
SynthesizedNodes(expr) ==
    IF expr.kind = "Unary"
    THEN {[op |-> expr.op, loc |-> expr.loc]} \cup SynthesizedNodes(expr.operand)
    ELSE IF expr.kind = "Binary"
    THEN {[op |-> expr.op, loc |-> expr.loc]}
         \cup SynthesizedNodes(expr.left) \cup SynthesizedNodes(expr.right)
    ELSE IF expr.kind = "Call"
    THEN SynthesizedNodes(expr.callee)
         \cup UNION {SynthesizedNodes(expr.args[i]) : i \in 1..Len(expr.args)}
    ELSE {}

\* C7: every node the resolver synthesizes, unary prefix, unary postfix or
\* binary, carries the location of the operator token that triggered it: each
\* such node of the resolved tree has the symbol and the location of an
\* operator token of the parsed expression.
C7_NodesCarryOperatorLocation ==
    pc = "resolved" /\ LastExpr(stmts) # Null =>
        SynthesizedNodes(LastExpr(stmts)) \subseteq OperatorTokens(LastExpr(parsed))

-----------------------------------------------------------------------------
(* C8 *)

\* The builder has gone over the program.
Collected == pc \in {"collected", "failed"}

\* The entries of the history that declare a variable.
VariableEntries == {i \in 1..Len(decl_log) : decl_log[i].decl \in {"let", "param"}}

\* The entries before entry i that bound its name in its scope.
EarlierBindings(i) ==
    {j \in VariableEntries : /\ j < i
                             /\ decl_log[j].name = decl_log[i].name
                             /\ decl_log[j].scope = decl_log[i].scope
                             /\ decl_log[j].outcome = "added"}

\* The builder reported an error at the line and column.
BuilderErrorAt(line, column) ==
    \E e \in 1..Len(builder_errors) :
        builder_errors[e].line = line /\ builder_errors[e].column = column

\* The binding the scope of entry i holds for its name is the one entry j made.
BindingIsFrom(i, j) ==
    /\ decl_log[i].name \in DOMAIN symbols.scopes[decl_log[i].scope].variables
    /\ symbols.scopes[decl_log[i].scope].variables[decl_log[i].name].line = decl_log[j].line
    /\ symbols.scopes[decl_log[i].scope].variables[decl_log[i].name].column = decl_log[j].column

\* C8: within one scope a variable name is never re-bound: a let or a
\* parameter that declares a name already bound in its scope is reported as
\* an error and the first binding stays; a declaration of a name not yet
\* bound in its scope, bound in an enclosing scope or not, is accepted.
C8_NoRebindingInScope ==
    Collected =>
        \A i \in VariableEntries :
            IF EarlierBindings(i) # {}
            THEN /\ decl_log[i].outcome = "error"
                 /\ BuilderErrorAt(decl_log[i].line, decl_log[i].column)
                 /\ BindingIsFrom(i, Least(EarlierBindings(i)))
            ELSE decl_log[i].outcome = "added"

-----------------------------------------------------------------------------
(* C9 *)

\* C9: every function declaration and every operator declaration the builder
\* meets while its current scope is not the global scope is rejected with an
\* error and is not added to the symbol table.
C9_NestedDeclarationsRejected ==
    Collected =>
        \A i \in 1..Len(decl_log) :
            decl_log[i].decl \in {"func", "operator"} /\ decl_log[i].scope_kind # "Global"
            => /\ decl_log[i].outcome = "error"
               /\ BuilderErrorAt(decl_log[i].line, decl_log[i].column)

-----------------------------------------------------------------------------
(* C10 *)

RECURSIVE LetsOf(_)
\* The let statements of a statement, wherever they stand in it.
LetsOf(stmt) ==
    IF stmt.kind = "Let" THEN {stmt}
    ELSE IF stmt.kind \in {"Func", "OperatorDecl", "While"} THEN LetsOf(stmt.body)
    ELSE IF stmt.kind = "If" THEN LetsOf(stmt.then_branch) \cup LetsOf(stmt.else_branch)
    ELSE IF stmt.kind = "Block" THEN UNION {LetsOf(stmt.stmts[i]) : i \in 1..Len(stmt.stmts)}
    ELSE {}

\* A scope of the table binds the name of the let at the place of the let.
IsCollected(let) ==
    \E k \in 1..Len(symbols.scopes) :
        /\ let.name \in DOMAIN symbols.scopes[k].variables
        /\ symbols.scopes[k].variables[let.name].line = let.loc.line
        /\ symbols.scopes[k].variables[let.name].column = let.loc.column

\* C10: every let statement of the program, at top level, in a function
\* body, in an operator-declaration body, in an if or else branch, in a while
\* body or in a nested block, is collected as a variable binding or reported
\* as a redefinition.
C10_EveryLetCollectedOrReported ==
    Collected =>
        \A n \in 1..Len(parsed) :
            \A let \in LetsOf(parsed[n]) :
                IsCollected(let) \/ BuilderErrorAt(let.loc.line, let.loc.column)

-----------------------------------------------------------------------------
(* C11 *)

\* No two entries of a list of overloads have the same parameter types.
DistinctParamTypes(overloads, param_types(_)) ==
    \A i, j \in 1..Len(overloads) :
        i # j => param_types(overloads[i]) # param_types(overloads[j])

\* C11: after declarations have been collected, from the prelude and from
\* user code, no two overloads stored under one function name and no two
\* overloads stored under one operator symbol and position have the same
\* parameter-type tuple.
C11_OverloadsHaveDistinctParamTypes ==
    pc \in {"prelude", "collected", "failed"} =>
        /\ \A name \in DOMAIN symbols.functions :
              DistinctParamTypes(symbols.functions[name], LAMBDA sig : sig.param_types)
        /\ \A key \in DOMAIN symbols.operators :
              DistinctParamTypes(symbols.operators[key],
                                 LAMBDA info : info.signature.param_types)

-----------------------------------------------------------------------------
(* C12 *)

\* The code generator has run and left a module.
Generated == pc \in {"generated", "failed"} /\ module_ # <<>>

\* The basic blocks of the module, as pairs of function and block.
BasicBlocks ==
    UNION {{<<f, b>> : b \in 1..Len(module_[f].blocks)} : f \in 1..Len(module_)}

InstsOf(fb) == module_[fb[1]].blocks[fb[2]].insts

\* The generator reported nothing but, at most, the verifier's rejection.
NoGeneratorError ==
    \A i \in 1..Len(codegen_errors) :
        codegen_errors[i].message = "LLVM module verification failed"

\* C12: in every function of the module the code generator built, no
\* instruction follows a terminator in its basic block and, when the
\* generator met no error of its own, every basic block holds exactly one
\* terminator, its last instruction.
C12_TerminatorIsLast ==
    Generated =>
        \A fb \in BasicBlocks :
            /\ \A i \in 1..(Len(InstsOf(fb)) - 1) : ~isTerminator(InstsOf(fb)[i])
            /\ NoGeneratorError =>
                  Cardinality({i \in 1..Len(InstsOf(fb)) : isTerminator(InstsOf(fb)[i])}) = 1

-----------------------------------------------------------------------------
(* C13 *)

RECURSIVE NodesOf(_)
\* The nodes of an expression: itself and the nodes of its operands, of its
\* callee and arguments, and of the operands of an unresolved sequence.
NodesOf(expr) ==
    IF expr \in {Null, NullOpt} THEN {}
    ELSE {expr} \cup
         (IF expr.kind = "Unary" THEN NodesOf(expr.operand)
          ELSE IF expr.kind = "Binary" THEN NodesOf(expr.left) \cup NodesOf(expr.right)
          ELSE IF expr.kind = "Call"
          THEN NodesOf(expr.callee) \cup UNION {NodesOf(expr.args[i]) : i \in 1..Len(expr.args)}
          ELSE IF expr.kind = "OperatorSeq"
          THEN UNION {IF expr.items[i].kind = "Operand" THEN NodesOf(expr.items[i].operand)
                      ELSE {} : i \in 1..Len(expr.items)}
          ELSE {})

RECURSIVE ExprsOf(_)
\* The expressions a statement holds, with those of the statements in it.
ExprsOf(stmt) ==
    IF stmt \in {Null, NullOpt} THEN {}
    ELSE IF stmt.kind = "Let" THEN NodesOf(stmt.init)
    ELSE IF stmt.kind = "Return" THEN NodesOf(stmt.value)
    ELSE IF stmt.kind = "Expr" THEN NodesOf(stmt.expr)
    ELSE IF stmt.kind \in {"Func", "OperatorDecl"} THEN ExprsOf(stmt.body)
    ELSE IF stmt.kind = "If"
    THEN NodesOf(stmt.condition) \cup ExprsOf(stmt.then_branch) \cup ExprsOf(stmt.else_branch)
    ELSE IF stmt.kind = "While" THEN NodesOf(stmt.condition) \cup ExprsOf(stmt.body)
    ELSE IF stmt.kind = "Block" THEN UNION {ExprsOf(stmt.stmts[i]) : i \in 1..Len(stmt.stmts)}
    ELSE {}

ProgramExprs == UNION {ExprsOf(stmts[n]) : n \in 1..Len(stmts)}

\* The operators the program applies: symbol and position of every unary
\* and binary node.
Applied == {<<e.op, e.position>> : e \in {n \in ProgramExprs : n.kind \in {"Unary", "Binary"}}}

\* generate declares the functions first and the operators after them: the
\* operator k of get_all_operators is function DeclaredFunctions + k.
DeclaredFunctions == Len(FunctionDeclarations(symbols))
DeclaredOperators == AllOperators(symbols)
SymbolOf(k) == module_[DeclaredFunctions + k].name

\* C13: every operator of the symbol table is declared in the module under
\* the name mangled from its symbol and parameter types, two different
\* operators have different symbols, and a call of an operator's function
\* is emitted only for a program that applies this operator, in its position.
C13_OperatorsHaveTheirOwnSymbol ==
    Generated =>
        /\ \A k \in 1..Len(DeclaredOperators) :
              SymbolOf(k) = MangledName(DeclaredOperators[k].op,
                                        DeclaredOperators[k].signature.param_types)
        /\ \A j, k \in 1..Len(DeclaredOperators) : j # k => SymbolOf(j) # SymbolOf(k)
        /\ \A fb \in BasicBlocks : \A i \in 1..Len(InstsOf(fb)) :
              \A k \in 1..Len(DeclaredOperators) :
                  /\ InstsOf(fb)[i].opcode = "call"
                  /\ InstsOf(fb)[i].callee = DeclaredFunctions + k
                  => <<DeclaredOperators[k].op, DeclaredOperators[k].position>> \in Applied

-----------------------------------------------------------------------------
(* C14 *)

\* The instruction a value is the result of.
InstructionOf(value) == module_[value.fn].blocks[value.bb].insts[value.idx]

\* The programs here have no bitwise operator: an "and" or an "or" of the
\* module is the lowering of "&&" or of "||".  The right operand of
\* instruction j of the block is the result of a call made in that very
\* block: the call is executed on the one path to j, whatever the value of
\* the left operand.
CallsRightOperandAnyway(fb, j) ==
    /\ InstsOf(fb)[j].opcode \in {"and", "or"}
    /\ InstsOf(fb)[j].operands[2].kind = "Instruction"
    /\ InstructionOf(InstsOf(fb)[j].operands[2]).opcode = "call"
    /\ <<InstsOf(fb)[j].operands[2].fn, InstsOf(fb)[j].operands[2].bb>> = fb

\* C14: "&&" and "||" are lowered with short-circuit evaluation: the calls
\* of the right operand are executed only when the value of the left operand
\* asks for it, never in the block that computes the result from both.
C14_LogicalOperatorsShortCircuit ==
    Generated =>
        \A fb \in BasicBlocks : \A j \in 1..Len(InstsOf(fb)) : ~CallsRightOperandAnyway(fb, j)

-----------------------------------------------------------------------------
(* C15: no stage of the pipeline throws *)

\* C15: for every input, numbers and precedence values of any length
\* included, each stage returns normally: the run never ends with an
\* exception leaving a stage.
C15_NoStageThrows == pc # "thrown"

-----------------------------------------------------------------------------
(* C16: a binary expression without a matching overload is an error *)

\* The operand types of a binary node are both known, and no overload of
\* its infix operator has exactly this pair of parameter types.
NoOverloadFor(node) ==
    /\ node.kind = "Binary"
    /\ TypeOf(node.left) # ""
    /\ TypeOf(node.right) # ""
    /\ \A m \in 1..Len(FindOperators(symbols, node.op, "Infix")) :
          FindOperators(symbols, node.op, "Infix")[m].signature.param_types
              # <<TypeOf(node.left), TypeOf(node.right)>>

FlaggedAt(loc) ==
    \E k \in 1..Len(type_errors) :
        type_errors[k].line = loc.line /\ type_errors[k].column = loc.column

\* C16: the type checker records an error for every binary expression
\* whose operand types are both known and match no overload of its operator.
C16_MismatchIsFlagged ==
    \A node \in ProgramExprs : NoOverloadFor(node) => FlaggedAt(node.loc)

-----------------------------------------------------------------------------
(* C17: the type checker annotates every expression *)

\* C17: when the type checker has run over the resolved statements and
\* reported no error, every expression node of the statement list other
\* than a bare name (in initializers, conditions, return values, expression
\* statements, arguments, function bodies and operator-declaration bodies)
\* carries an inferred type.
C17_EveryExpressionIsAnnotated ==
    pc = "checked" =>
        \A node \in ProgramExprs : node.kind # "Identifier" => node.inferred_type # ""

-----------------------------------------------------------------------------
(* C18: a let of an inner block stops shadowing when the block ends *)

\* The names the programs bind and use.
Names == {"a", "b", "v", "x", "result"}

\* A top-level statement that opens scopes of its own.
OpensScope(n) == stmts[n].kind \in {"Block", "If", "While", "Func", "OperatorDecl"}

\* The type checker when it has checked the first n top-level statements,
\* and the code generator when it has generated them.
CheckerAfter(n) == CheckStmts(SubSeq(stmts, 1, n), <<>>, TypeChecker, symbols).T
GeneratorAfter(n) ==
    GenTopLevel(SubSeq(stmts, 1, n), 1,
                EntryFunction(Declare(CodeGen,
                                      FunctionDeclarations(symbols) \o OperatorDeclarations(symbols),
                                      1)),
                symbols)

\* The type and the storage slot a use of the name resolves to.
TypeIn(T, name) == LookupVariableType(T.scope_stack_, name, Len(T.scope_stack_))
SlotIn(G, name) == LookupVariable(G.value_stack_, name, Len(G.value_stack_))

\* The name the top-level statement n is a use of, "" when it is none.
UseOf(n) ==
    LET e == IF stmts[n].kind = "Expr" THEN stmts[n].expr
             ELSE IF stmts[n].kind = "Return" THEN stmts[n].value
             ELSE IF stmts[n].kind = "Let" THEN stmts[n].init
             ELSE Null
    IN  IF e \in {Null, NullOpt} THEN "" ELSE IF e.kind = "Identifier" THEN e.name ELSE ""

AnnotationOf(n) ==
    IF stmts[n].kind = "Expr" THEN stmts[n].expr.inferred_type
    ELSE IF stmts[n].kind = "Return" THEN stmts[n].value.inferred_type
    ELSE stmts[n].init.inferred_type

\* Statement n leaves the types of the names as they were before it.
TypesRestored(n) ==
    LET before == CheckerAfter(n - 1)
        after == CheckStmt(stmts[n], before, symbols).T
    IN  \A name \in Names : TypeIn(after, name) = TypeIn(before, name)

\* Statement n leaves the slots of the names as they were before it.
SlotsRestored(n) ==
    LET before == GeneratorAfter(n - 1)
        after == GenTopLevel(<<stmts[n]>>, 1, before, symbols)
    IN  \A name \in Names : SlotIn(after, name) = SlotIn(before, name)

\* C18: after a statement with inner scopes (a block, the branches of an if,
\* the body of a loop or of a declaration, nested to any depth), every name
\* resolves as it did before the statement: to the same type in the type
\* checker, which is the type the next use of the name is annotated with,
\* and to the same storage slot in the code generator.
C18_ShadowingEndsWithTheBlock ==
    /\ pc = "resolved" /\ resolve_errors = <<>> =>
          \A n \in 1..Len(stmts) : OpensScope(n) => TypesRestored(n)
    /\ pc = "checked" =>
          \A n \in 1..Len(stmts) :
              OpensScope(n) =>
                  /\ SlotsRestored(n)
                  /\ n < Len(stmts) /\ UseOf(n + 1) # ""
                     => AnnotationOf(n + 1) = TypeIn(CheckerAfter(n - 1), UseOf(n + 1))

\* "let a = 1; { ... let a = true; ... } a;" has been compiled: the use after
\* the block has the type of the outer a.
C18_Witness ==
    /\ pc = "generated"
    /\ \E n \in 2..(Len(stmts) - 1) :
          /\ stmts[n - 1].kind = "Let" /\ stmts[n - 1].name = "a"
          /\ TypeOf(stmts[n - 1].init) = "i32"
          /\ stmts[n].kind = "Block"
          /\ \E k \in 1..Len(stmts[n].stmts) :
                /\ stmts[n].stmts[k].kind = "Let" /\ stmts[n].stmts[k].name = "a"
                /\ TypeOf(stmts[n].stmts[k].init) = "bool"
          /\ stmts[n + 1].kind = "Expr"
          /\ stmts[n + 1].expr.kind = "Identifier" /\ stmts[n + 1].expr.name = "a"
          /\ stmts[n + 1].expr.inferred_type = "i32"

-----------------------------------------------------------------------------
(* C19: where the parser goes on after a statement that failed *)

\* The keywords parse_stmt starts a statement with.
StatementKeywords == {"let", "func", "operator", "if", "return", "while"}

RECURSIVE ResumePoint(_, _)
\* The first statement boundary from token i on: the token after a ';', a
\* '}', a keyword that starts a statement, or the end of the file.
ResumePoint(tokens, i) ==
    IF i > Len(tokens) \/ tokens[i].kind = "EndOfFile" THEN i
    ELSE IF tokens[i].kind = "Punctuation" /\ tokens[i].lexeme = ";" THEN i + 1
    ELSE IF tokens[i].kind = "Punctuation" /\ tokens[i].lexeme = "}" THEN i
    ELSE IF tokens[i].kind = "Keyword" /\ tokens[i].lexeme \in StatementKeywords THEN i
    ELSE ResumePoint(tokens, i + 1)

RECURSIVE StmtsIn(_)
\* A statement and the statements in it.
StmtsIn(stmt) ==
    IF stmt \in {Null, NullOpt} THEN {}
    ELSE {stmt} \cup
         (IF stmt.kind = "Block" THEN UNION {StmtsIn(stmt.stmts[i]) : i \in 1..Len(stmt.stmts)}
          ELSE IF stmt.kind \in {"Func", "OperatorDecl", "While"} THEN StmtsIn(stmt.body)
          ELSE IF stmt.kind = "If" THEN StmtsIn(stmt.then_branch) \cup StmtsIn(stmt.else_branch)
          ELSE {})

\* The tokens recovery k skipped.
Skipped(k) ==
    {i \in synchronized[k].from..(synchronized[k].to - 1) : tokens_[i].kind # "Comment"}

\* C19: after a statement that failed the parser goes on from the first
\* statement boundary (after the next ';', at a '}' or at a keyword that
\* starts a statement); the '}' it stopped at is consumed by a block, so
\* that the parse ends; and no statement of the result starts at a token
\* that was skipped.
C19_ResumesAtStatementBoundary ==
    /\ pc # "diverges"
    /\ \A k \in 1..Len(synchronized) :
          SkipComments(tokens_, synchronized[k].to)
              = SkipComments(tokens_, ResumePoint(tokens_, synchronized[k].from))
    /\ \A k \in 1..Len(synchronized) : \A i \in Skipped(k) : \A n \in 1..Len(parsed) :
          \A stmt \in StmtsIn(parsed[n]) : stmt.loc # token_loc(tokens_[i])

-----------------------------------------------------------------------------
(* C20: where an error about a missing token is located *)

\* The messages of the errors that report an expected token as missing.
MissingToken ==
    { "Expected ';' after let statement", "Expected ';' after return statement",
      "Expected ';' after expression", "Expected ';' after operator declaration",
      "Expected '=' in let statement", "Expected ')' after expression",
      "Expected ')' after arguments", "Expected ',' between arguments",
      "Expected ',' between parameters", "Expected '(' after function name",
      "Expected '(' after operator symbol", "Expected ':' after parameter name",
      "Expected ':' after parameters", "Expected '{'", "Expected '}'",
      "Expected '{' or ';' after function signature" }

\* The last token before index i that is no comment, 0 when there is none.
LastBefore(i) ==
    IF \E j \in 1..(i - 1) : tokens_[j].kind # "Comment"
    THEN CHOOSE j \in 1..(i - 1) :
            /\ tokens_[j].kind # "Comment"
            /\ \A h \in (j + 1)..(i - 1) : tokens_[h].kind = "Comment"
    ELSE 0

\* The gap of an error is before the token the parser looked at.
GapOf(error) == SkipComments(tokens_, error.cursor)

\* C20: an error that reports a missing token is located at the line and
\* the end column of the last token before the gap that is no comment.
C20_MissingTokenAtPreviousEnd ==
    \A k \in 1..Len(parse_errors) :
        parse_errors[k].message \in MissingToken /\ LastBefore(GapOf(parse_errors[k])) # 0 =>
            /\ parse_errors[k].line = tokens_[LastBefore(GapOf(parse_errors[k]))].line
            /\ parse_errors[k].column = tokens_[LastBefore(GapOf(parse_errors[k]))].end_column

-----------------------------------------------------------------------------
(* C21: a statement that lacks only its ';' *)

\* The kind of the statement an error about a missing ';' belongs to.
KindOfMissing(message) ==
    IF message = "Expected ';' after let statement" THEN "Let"
    ELSE IF message = "Expected ';' after return statement" THEN "Return"
    ELSE IF message = "Expected ';' after operator declaration" THEN "OperatorDecl"
    ELSE IF message = "Expected ';' after expression" THEN "Expr"
    ELSE ""

\* The keyword a statement of the kind starts with, "" for an expression.
KeywordOf(kind) ==
    IF kind = "Let" THEN "let" ELSE IF kind = "Return" THEN "return"
    ELSE IF kind = "OperatorDecl" THEN "operator" ELSE ""

\* Token j can be the first token of a statement of the kind.
StartsKind(j, kind) ==
    IF kind = "Expr"
    THEN \/ j = 1
         \/ tokens_[j - 1].kind = "Punctuation" /\ tokens_[j - 1].lexeme \in {";", "{", "}"}
    ELSE tokens_[j].kind = "Keyword" /\ tokens_[j].lexeme = KeywordOf(kind)

\* The first token of the statement that lacks the ';' the error reports:
\* the last token before the gap a statement of that kind can start with.
StartOfMissing(error) ==
    LET kind == KindOfMissing(error.message)
        starts == {j \in 1..(GapOf(error) - 1) : StartsKind(j, kind)}
    IN  IF starts = {} THEN 0
        ELSE CHOOSE j \in starts : \A h \in starts : h <= j

\* C21: a statement that lacks nothing but its ';' is in the parsed program
\* with its kind, at the place where it is written: for every error about
\* a missing ';' the result holds a statement of the kind the error names
\* that starts at the first token of the statement the error belongs to.
C21_StatementKeptWithoutSemicolon ==
    pc = "failed" =>
        \A k \in 1..Len(parse_errors) :
            KindOfMissing(parse_errors[k].message) # "" /\ StartOfMissing(parse_errors[k]) # 0 =>
                \E n \in 1..Len(parsed) : \E stmt \in StmtsIn(parsed[n]) :
                    /\ stmt.kind = KindOfMissing(parse_errors[k].message)
                    /\ stmt.loc = token_loc(tokens_[StartOfMissing(parse_errors[k])])

-----------------------------------------------------------------------------
(* C22: the keywords of the lexer and of the parser *)

\* The lexemes the parser compares a keyword token with
\* (src/src/parser.cpp:28-38, 198-202, 302, 317-322, 371-375, 562-566).
ParserKeywords ==
    { "let", "func", "operator", "if", "return", "while", "else", "true", "false",
      "prefix", "infix", "postfix", "prec", "assoc_left", "assoc_right" }

\* The whole text has the shape of an identifier.
IdentifierShaped(source) ==
    /\ source # <<>>
    /\ IsIdentifierStart(source[1])
    /\ \A i \in 1..Len(source) : IsIdentifierPart(source[i])

\* C22: a text of the shape of an identifier is one token, a keyword when
\* it is one of the fifteen words the parser tests keyword tokens for
\* (let, func, if, else, return, while, true, false, operator, prefix,
\* postfix, infix, prec, assoc_left, assoc_right) and an identifier
\* otherwise.
C22_KeywordsAreTheParsersKeywords ==
    pc = "lexed" /\ IdentifierShaped(source_) =>
        /\ Len(tokens_) = 2
        /\ tokens_[1].lexeme = Str(source_)
        /\ tokens_[1].kind = IF tokens_[1].lexeme \in ParserKeywords THEN "Keyword"
                             ELSE "Identifier"

-----------------------------------------------------------------------------
(* C23: the lexer reaches the end of every text *)

\* The lexer has run.
Lexed == pc \in {"lexed", "rejected", "diverges"}

\* The offset the token before token k ends at.
EndBefore(k) == IF k = 1 THEN 0 ELSE spans[k - 1].to

\* C23: tokenize_all ends; the last token it returns, and no other, is the
\* end-of-file token; every call of next_token before the end consumes at
\* least one character; and the tokens, errors among them, go on to the
\* end of the text, with nothing but whitespace between them.
C23_LexerReachesEndOfFile ==
    Lexed =>
        /\ pc # "diverges"
        /\ tokens_[Len(tokens_)].kind = "EndOfFile"
        /\ \A k \in 1..(Len(tokens_) - 1) :
              tokens_[k].kind # "EndOfFile" /\ spans[k].to > spans[k].from
        /\ spans[Len(spans)].to = Len(source_)
        /\ \A k \in 1..Len(spans) :
              /\ EndBefore(k) <= spans[k].from
              /\ \A i \in (EndBefore(k) + 1)..spans[k].from : IsWhitespace(source_[i])

\* A text with an error token and a token after it has been lexed.
C23_Witness ==
    /\ pc = "rejected"
    /\ \E k \in 1..(Len(tokens_) - 2) :
          tokens_[k].kind = "Error" /\ tokens_[k + 1].kind \notin {"Error", "EndOfFile"}

-----------------------------------------------------------------------------
(* C24: the tokens are in the order of the text *)

\* Token k begins after the beginning of the token before it.
BeginsAfter(k) ==
    \/ tokens_[k].line > tokens_[k - 1].line
    \/ tokens_[k].line = tokens_[k - 1].line /\ tokens_[k].column > tokens_[k - 1].column

\* C24: along the token list the start positions strictly increase: each
\* token begins at a line and column after those of the token before it.
C24_StartPositionsIncrease ==
    Lexed => \A k \in 2..Len(tokens_) : BeginsAfter(k)

\* A text of two lines with a token on each, and an error token, has been
\* lexed.
C24_Witness ==
    /\ pc = "rejected"
    /\ Len(tokens_) >= 3
    /\ \E k \in 2..(Len(tokens_) - 1) : tokens_[k].line > tokens_[k - 1].line

-----------------------------------------------------------------------------
(* C25: the spans of the tokens and the whitespace make up the text *)

RECURSIVE SpanSum(_)
\* The sum of end column minus start column over the first n tokens.  The
\* columns are std::size_t; the sum is taken in the integers, which agrees
\* with the result modulo 2^64 for texts of these lengths.
SpanSum(n) ==
    IF n = 0 THEN 0 ELSE SpanSum(n - 1) + (tokens_[n].end_column - tokens_[n].column)

RECURSIVE WhitespaceSum(_)
\* The number of whitespace characters skipped before the first n tokens.
WhitespaceSum(n) ==
    IF n = 0 THEN 0 ELSE WhitespaceSum(n - 1) + (spans[n].from - EndBefore(n))

\* C25: the spans of the tokens before the end-of-file token, which has no
\* characters, and the whitespace skipped add up to the length of the text.
C25_SpansCoverTheSource ==
    Lexed =>
        SpanSum(Len(tokens_) - 1) + WhitespaceSum(Len(tokens_)) = Len(source_)

-----------------------------------------------------------------------------
(* C26: parse_program ends *)

\* C26: parse_program ends on every token list that ends with the
\* end-of-file token: no turn of its loop, with a statement parsed or with
\* a statement failed and synchronize called, leaves the cursor where it
\* was.
C26_ParseProgramEnds ==
    tokens_ # <<>> /\ tokens_[Len(tokens_)].kind = "EndOfFile" => pc # "diverges"

-----------------------------------------------------------------------------
(* C27: the tree of a sequence holds the sequence *)

RECURSIVE InOrder(_)
\* The operands and the operators of a tree of binary nodes, from left to
\* right: an operand by its shape, an operator by its symbol and its token.
InOrder(tree) ==
    IF tree.kind = "Binary"
    THEN InOrder(tree.left) \o <<[op |-> tree.op, loc |-> tree.loc]>> \o InOrder(tree.right)
    ELSE <<Shape(tree)>>

RECURSIVE SourceOrder(_)
\* The operands and the operators of a sequence as they are written.
SourceOrder(items) ==
    IF items = <<>> THEN <<>>
    ELSE <<IF items[1].kind = "Operand" THEN Shape(items[1].operand)
           ELSE [op |-> items[1].op, loc |-> items[1].loc]>> \o SourceOrder(Tail(items))

\* C27: when "operand (infix-operator operand)*" is resolved without an
\* error, the tree holds every operand and every operator of the sequence
\* once, in the order of the source, whatever precedences are declared,
\* 1000 and more among them.
C27_TreeKeepsTheSequence ==
    ( /\ pc = "resolved"
      /\ resolve_errors = <<>>
      /\ LastExpr(parsed).kind = "OperatorSeq"
      /\ IsInfixChain(LastExpr(parsed).items) )
    => /\ LastExpr(stmts) # Null
       /\ InOrder(LastExpr(stmts)) = SourceOrder(LastExpr(parsed).items)

-----------------------------------------------------------------------------
(* C28: an expression is resolved whole or not at all *)

RECURSIVE Complete(_)
\* The tree is there and so is every sub-expression of its nodes.
Complete(tree) ==
    /\ tree # Null
    /\ IF tree.kind = "Binary" THEN Complete(tree.left) /\ Complete(tree.right)
       ELSE IF tree.kind = "Unary" THEN Complete(tree.operand)
       ELSE IF tree.kind = "Call"
       THEN Complete(tree.callee) /\ \A i \in 1..Len(tree.args) : Complete(tree.args[i])
       ELSE TRUE

\* The program has one expression, in its last statement: the statements
\* before it are operator declarations without a body.
OneExpression(program) ==
    /\ program # <<>>
    /\ LastExpr(program) # Null
    /\ \A i \in 1..(Len(program) - 1) :
          program[i].kind = "OperatorDecl" /\ program[i].body = NullOpt

\* C28: resolving an expression either appends an error and returns no
\* tree, or appends no error and returns a tree in which no operand, callee
\* or call argument is null, also when the sub-expression that fails is a
\* call argument or an operand in parentheses.
C28_ResolvedWholeOrNotAtAll ==
    pc = "resolved" /\ OneExpression(parsed) =>
        IF resolve_errors = <<>> THEN Complete(LastExpr(stmts))
        ELSE LastExpr(stmts) = Null

-----------------------------------------------------------------------------
(* C29: the overloads of an infix operator share precedence and associativity *)

\* The overloads of a list have one precedence and one associativity.
SamePrecedence(overloads) ==
    \A i, j \in 1..Len(overloads) :
        /\ overloads[i].precedence = overloads[j].precedence
        /\ overloads[i].assoc = overloads[j].assoc

RECURSIVE Reversed(_)
Reversed(list) == IF list = <<>> THEN <<>> ELSE Append(Reversed(Tail(list)), Head(list))

\* The operator table had the overloads been declared in the reverse order.
DeclaredInReverse(operators_) == [key \in DOMAIN operators_ |-> Reversed(operators_[key])]

\* C29: the overloads registered for an infix operator symbol have the same
\* precedence and the same associativity, so that an expression resolves to
\* the same tree when the overloads are declared in another order.
C29_OverloadsShareTheirPrecedence ==
    /\ Collected =>
          \A key \in DOMAIN symbols.operators :
              key[2] = "Infix" => SamePrecedence(symbols.operators[key])
    /\ pc = "resolved" /\ OneExpression(parsed) =>
          ResolveExpr(LastExpr(parsed), DeclaredInReverse(symbols.operators), <<>>).expr
              = LastExpr(stmts)

-----------------------------------------------------------------------------
(* C30: definitions that share a name *)

\* The top-level definitions whose body is "return n;" for a number n.
Definitions ==
    {n \in 1..Len(stmts) :
        /\ stmts[n].kind \in {"Func", "OperatorDecl"}
        /\ stmts[n].body # NullOpt
        /\ Len(stmts[n].body.stmts) = 1
        /\ stmts[n].body.stmts[1].kind = "Return"
        /\ stmts[n].body.stmts[1].value \notin {Null, NullOpt}
        /\ stmts[n].body.stmts[1].value.kind = "IntLiteral"}

Returned(n) == Constant("i32", APInt32(stmts[n].body.stmts[1].value.value))

\* Function f of the module has the body of definition n: a block of f
\* returns the number of the definition.
HasBodyOf(f, n) ==
    \E b \in 1..Len(module_[f].blocks) :
        \E i \in 1..Len(module_[f].blocks[b].insts) :
            /\ module_[f].blocks[b].insts[i].opcode = "ret"
            /\ module_[f].blocks[b].insts[i].operands = <<Returned(n)>>

\* The names of the types of the parameters of a definition.
ParamTypeNames(decl) == [k \in 1..Len(decl.params) |-> decl.params[k].type.name]

\* The expression calls or applies the definition: the name, the types of
\* the arguments and, for an operator, the position are the definition's.
Uses(e, decl) ==
    IF decl.kind = "Func"
    THEN /\ e.kind = "Call"
         /\ e.callee.kind = "Identifier"
         /\ e.callee.name = decl.name
         /\ [k \in 1..Len(e.args) |-> e.args[k].inferred_type] = ParamTypeNames(decl)
    ELSE \/ /\ e.kind = "Unary"
            /\ e.op = decl.op
            /\ e.position = decl.position
            /\ <<e.operand.inferred_type>> = ParamTypeNames(decl)
         \/ /\ e.kind = "Binary"
            /\ e.op = decl.op
            /\ decl.position = "Infix"
            /\ <<e.left.inferred_type, e.right.inferred_type>> = ParamTypeNames(decl)

\* The functions the call instructions of the module call.
Callees ==
    UNION {{InstsOf(fb)[i].callee : i \in 1..Len(InstsOf(fb))} : fb \in BasicBlocks} \ {0}

\* C30: in the module generated for a program, each definition with a body
\* is emitted into a function of its own, which holds the body of no other
\* definition; a call or operator application whose name, argument types
\* and position are those of a definition is lowered to a call of the
\* function that holds its body, and no call goes to the function of a
\* definition the program does not use.
C30_DefinitionsHaveTheirOwnFunction ==
    pc = "generated" =>
        /\ \A n \in Definitions :
              \E f \in 1..Len(module_) :
                  /\ HasBodyOf(f, n)
                  /\ \A m \in Definitions : Returned(m) # Returned(n) => ~HasBodyOf(f, m)
        /\ \A n \in Definitions, e \in ProgramExprs :
              Uses(e, stmts[n]) => \E f \in Callees : HasBodyOf(f, n)
        /\ \A n \in Definitions, f \in Callees :
              HasBodyOf(f, n) => \E e \in ProgramExprs : Uses(e, stmts[n])

====
